---------------------------- MODULE Spec2Model ----------------------------
(***************************************************************************)
(* The distributed training control loop of megatron/training.py:          *)
(* pretrain, setup_model_and_optimizer, train, train_step,                 *)
(* save_checkpoint_and_time and build_train_valid_test_data_iterators,     *)
(* run by NRanks worker processes that meet in collectives.                *)
(***************************************************************************)
EXTENDS Integers, Sequences, FiniteSets, TLC

\* --------------------------------------------------------------- bounds
NRanks == 2
MaxIters == 2
MaxTime == 2
MaxRestarts == 1
MaxLogIters == 4
MaxLoss == 1
MaxSeed == 2
MaxStepCalls == 2
MaxSamples == 24
MaxBatch == 32
MaxCalcSteps == 3
MaxWorld == 6
MaxVirtual == 3
MaxDataParallelRank == 10
MaxStages == 3
MaxEvalIters == 2
MaxValidSets == 2
LoaderLen == 2
MaxDraws == 3
MaxPrompts == 2
MaxPromptLen == 2
MaxGenerate == 2

Ranks == 1..NRanks

\* no checkpoint
NoCkpt == [iteration |-> -1, consumed_train_samples |-> 0,
           consumed_valid_samples |-> 0, has_counters |-> FALSE]

\* ------------------------------------------------------- configuration
\* tensor- and pipeline-parallel size 1: every rank is a data-parallel
\* replica, mpu.get_data_parallel_world_size() == args.data_parallel_size
data_parallel_size == NRanks

\* The arguments. Batch sizes are multiples of
\* micro_batch_size * data_parallel_size (any other configuration is rejected
\* when the micro-batch calculator is constructed). rampup_batch_size is <<>>
\* for None, else <<start size, increment, ramp-up samples>>.
Args ==
  [train_iters : 1..MaxIters,
   micro_batch_size : {1},
   global_batch_size : {2 * NRanks},
   rampup_batch_size : {<<>>, <<NRanks, NRanks, 2 * NRanks>>},
   load : BOOLEAN,
   save : BOOLEAN,
   save_interval : {0, 2},
   exit_interval : {0, 2},
   exit_duration_in_mins : {0, 1},
   exit_signal_handler : BOOLEAN,
   adlr_autoresume : BOOLEAN,
   adlr_autoresume_interval : {1},
   eval_interval : {2},
   eval_iters : {1},
   num_valid_ds : {0, 1}]

Min(a, b) == IF a <= b THEN a ELSE b
Max(a, b) == IF a >= b THEN a ELSE b

\* ------------------------------------------- micro-batch calculator
\* current global batch size at `consumed` samples: constant, or a linear
\* ramp from the start size to global_batch_size in steps of the increment,
\* the levels spread evenly over the ramp-up samples.
RampLevels(a) ==
  (a.global_batch_size - a.rampup_batch_size[1]) \div a.rampup_batch_size[2] + 1

get_current_global_batch_size(a, consumed) ==
  IF a.rampup_batch_size = <<>> THEN a.global_batch_size
  ELSE IF consumed > a.rampup_batch_size[3] THEN a.global_batch_size
  ELSE Min(a.global_batch_size,
           a.rampup_batch_size[1]
             + (consumed \div (a.rampup_batch_size[3] \div RampLevels(a)))
               * a.rampup_batch_size[2])

\* update_num_microbatches(consumed) followed by get_num_microbatches()
get_num_microbatches(a, consumed) ==
  get_current_global_batch_size(a, consumed)
    \div (a.micro_batch_size * data_parallel_size)

VARIABLES
  args,                      \* the parsed arguments, fixed for the job
  pc,                        \* [rank -> position in pretrain / train]
  ret,                       \* [rank -> where save_checkpoint_and_time returns to]
  iteration,                 \* [rank -> args.iteration, then train's iteration]
  consumed_train_samples,    \* [rank -> args.consumed_train_samples]
  consumed_valid_samples,    \* [rank -> args.consumed_valid_samples]
  num_microbatches,          \* [rank -> get_num_microbatches()]
  num_steps,                 \* [rank -> samples opt_param_scheduler.step was given]
  update_successful,         \* [rank -> what optimizer.step returned last]
  skipped_iter,              \* [rank -> train_step's skipped_iter]
  saved_checkpoint,          \* [rank -> train's saved_checkpoint]
  done_cuda,                 \* [rank -> the flag of the wall-time poll]
  train_start_time,          \* [rank -> _TRAIN_START_TIME]
  train_dataloader,          \* [rank -> consumed samples the train loader starts at]
  store,                     \* checkpoint storage: [rank -> its newest shard]
  latest,                    \* the tracker: latest checkpointed iteration
  now,                       \* wall clock (minutes)
  signal_received,           \* [rank -> SIGTERM seen by the handler]
  restarts,                  \* how often the job was started again
  \* history
  loaded,                    \* [rank -> the checkpoint load_checkpoint read]
  writes,                    \* [rank -> iterations passed to save_checkpoint, this run]
  iter_saves,                \* [rank -> save_checkpoint calls in this iteration]
  iter_evals,                \* [rank -> evaluations of train in this iteration]
  final_pass,                \* [rank -> what pretrain ran after train returned]
  planned,                   \* [rank -> sum of the planned global batch sizes]
  steps,                     \* [rank -> train_step calls of this run]
  poll_flags,                \* the local flags that entered the last all-reduce
  legacy_store,              \* the storage held a checkpoint without counters
  \* training_log
  total_loss_dict,           \* the running totals and counters train passes in
  log,                       \* the last call of training_log: inputs and report
  \* _set_random_seed
  rng,                       \* the random sources of every process of the grid
  \* train_step
  tstep,                     \* the call of train_step: position and operations
  \* update_train_iters
  uti,                       \* the call of update_train_iters: position and locals
  \* the micro-batch calculator
  calc,                      \* the calculator and the steps planned with it
  \* _initialize_distributed
  topo,                      \* [rank -> the topology the process has computed]
  \* get_model
  gm,                        \* the call of get_model and the virtual-pipeline rank
  \* the start time and the wall-time budget
  wall,                      \* [rank -> start time measured, held, time read]
  \* tensorboard and wandb
  sink,                      \* the calls of the last rank on its sinks
  \* save_checkpoint_and_time with a save that can fail
  sct,                       \* [rank -> position and iteration]
  \* _compile_dependencies
  cdep,                      \* [rank -> position in _compile_dependencies]
  \* _set_random_seed on two processes
  pair,                      \* two processes of the grid and the seeds they derive
  \* evaluate
  ev,                        \* the call of evaluate: position, counters, model modes
  \* the validation loaders across a resume
  vd,                        \* the run's validation counters, loaders and checkpoint
  \* backward compatibility of the sample counters
  bc,                        \* the counters while build_train_valid_test_data_iterators runs
  \* the validation and test iterators
  di,                        \* the validation (test) iterators and what each has yielded
  \* _tokenize_prompts_and_batch
  tk,                        \* the call of _tokenize_prompts_and_batch and what it returned
  \* initialize_megatron
  im                         \* the call of initialize_megatron: the steps done and what it returned

vars == <<args, pc, ret, iteration, consumed_train_samples,
          consumed_valid_samples, num_microbatches, num_steps,
          update_successful, skipped_iter, saved_checkpoint, done_cuda,
          train_start_time, train_dataloader, store, latest, now,
          signal_received, restarts,
          loaded, writes, iter_saves, iter_evals, final_pass, planned,
          steps,
          poll_flags, legacy_store, total_loss_dict, log, rng, tstep, uti, calc, topo, gm, wall, sink, sct, cdep, pair, ev, vd, bc, di, tk, im>>

\* the state of the training job without the arguments
trainVars == <<pc, ret, iteration, consumed_train_samples,
               consumed_valid_samples, num_microbatches, num_steps,
               update_successful, skipped_iter, saved_checkpoint, done_cuda,
               train_start_time, train_dataloader, store, latest, now,
               signal_received, restarts,
               loaded, writes, iter_saves, iter_evals, final_pass, planned,
          steps,
               poll_flags, legacy_store>>

\* the state of the functions that are run on their own
unitVars == <<total_loss_dict, log, rng, tstep, uti, calc, topo, gm, wall, sink, sct, cdep, pair, ev, vd, bc, di, tk, im>>

\* what each function that is run on its own leaves alone
exceptLog == <<rng, tstep, uti, calc, topo, gm, wall, sink, sct, cdep, pair, ev, vd, bc, di, tk, im>>
exceptSeed == <<total_loss_dict, log, tstep, uti, calc, topo, gm, wall, sink, sct, cdep, pair, ev, vd, bc, di, tk, im>>
exceptStep == <<total_loss_dict, log, rng, uti, calc, topo, gm, wall, sink, sct, cdep, pair, ev, vd, bc, di, tk, im>>
exceptIters == <<total_loss_dict, log, rng, tstep, calc, topo, gm, wall, sink, sct, cdep, pair, ev, vd, bc, di, tk, im>>
exceptCalc == <<total_loss_dict, log, rng, tstep, uti, topo, gm, wall, sink, sct, cdep, pair, ev, vd, bc, di, tk, im>>
exceptTopo == <<total_loss_dict, log, rng, tstep, uti, calc, gm, wall, sink, sct, cdep, pair, ev, vd, bc, di, tk, im>>
exceptModel == <<total_loss_dict, log, rng, tstep, uti, calc, topo, wall, sink, sct, cdep, pair, ev, vd, bc, di, tk, im>>
exceptWall == <<total_loss_dict, log, rng, tstep, uti, calc, topo, gm, sink, sct, cdep, pair, ev, vd, bc, di, tk, im>>
exceptSink == <<total_loss_dict, log, rng, tstep, uti, calc, topo, gm, wall, sct, cdep, pair, ev, vd, bc, di, tk, im>>
exceptSave == <<total_loss_dict, log, rng, tstep, uti, calc, topo, gm, wall, sink, cdep, pair, ev, vd, bc, di, tk, im>>
exceptCompile == <<total_loss_dict, log, rng, tstep, uti, calc, topo, gm, wall, sink, sct, pair, ev, vd, bc, di, tk, im>>
exceptPair == <<total_loss_dict, log, rng, tstep, uti, calc, topo, gm, wall, sink, sct, cdep, ev, vd, bc, di, tk, im>>
exceptEval == <<total_loss_dict, log, rng, tstep, uti, calc, topo, gm, wall, sink, sct, cdep, pair, vd, bc, di, tk, im>>
exceptValid == <<total_loss_dict, log, rng, tstep, uti, calc, topo, gm, wall, sink, sct, cdep, pair, ev, bc, di, tk, im>>
exceptCompat == <<total_loss_dict, log, rng, tstep, uti, calc, topo, gm, wall, sink, sct, cdep, pair, ev, vd, di, tk, im>>
exceptItersBuilt == <<total_loss_dict, log, rng, tstep, uti, calc, topo, gm, wall, sink, sct, cdep, pair, ev, vd, bc, tk, im>>
exceptBatch == <<total_loss_dict, log, rng, tstep, uti, calc, topo, gm, wall, sink, sct, cdep, pair, ev, vd, bc, di, im>>
exceptInitialize == <<total_loss_dict, log, rng, tstep, uti, calc, topo, gm, wall, sink, sct, cdep, pair, ev, vd, bc, di, tk>>


\* ------------------------------------------------------------- helpers
Shard(it, cts, cvs, hc) ==
  [iteration |-> it, consumed_train_samples |-> cts,
   consumed_valid_samples |-> cvs, has_counters |-> hc]

\* a checkpoint written by a version that did not yet store the sample
\* counters (the case the backward-compatibility code handles)
LegacyStore(a, k) ==
  [r \in Ranks |-> Shard(k, 0, 0, FALSE)]

Count(seq, x) == Cardinality({i \in 1..Len(seq) : seq[i] = x})

\* args.do_valid as build_train_valid_test_data_iterators sets it
do_valid(a) == (IF a.eval_iters > 0 THEN a.num_valid_ds ELSE 0) > 0

\* the blocks of one pass through the body of train's loop, after the
\* training step and the logging, in program order
Blocks == <<"autoresume", "eval", "signal", "save_interval", "duration",
            "exit_interval">>

\* variant: no evaluation in an iteration whose checkpoint is saved
EvalDue_UnlessSaving(a, it) ==
  /\ a.eval_interval # 0 /\ it % a.eval_interval = 0 /\ do_valid(a)
  /\ ~(a.save /\ a.save_interval # 0 /\ it % a.save_interval = 0)

\* train, "Evaluation": args.eval_interval and iteration % args.eval_interval
\* == 0 and args.do_valid
EvalDue(a, it) ==
  a.eval_interval # 0 /\ it % a.eval_interval = 0 /\ do_valid(a)

\* the condition under which train enters each block
Cond(b, a, it) ==
  CASE b = "autoresume" ->
         a.adlr_autoresume /\ it % a.adlr_autoresume_interval = 0
    [] b = "eval" -> EvalDue(a, it)
    [] b = "signal" -> a.exit_signal_handler
    [] b = "save_interval" ->
         a.save /\ a.save_interval # 0 /\ it % a.save_interval = 0
    [] b = "duration" -> a.exit_duration_in_mins # 0
    [] b = "exit_interval" ->
         a.exit_interval # 0 /\ it % a.exit_interval = 0

\* where a rank is when it enters a block: the autoresume check and the
\* signal check start with a collective
EntryPc(b) ==
  CASE b = "autoresume" -> "autoresume_barrier"
    [] b = "signal" -> "signal_gather"
    [] OTHER -> b

RECURSIVE NextBlock(_, _, _)
NextBlock(i, a, it) ==
  IF i > Len(Blocks) THEN "loop_head"
  ELSE IF Cond(Blocks[i], a, it) THEN EntryPc(Blocks[i])
  ELSE NextBlock(i + 1, a, it)

\* the next block entered after block number i of this iteration
After(i, a, it) == NextBlock(i + 1, a, it)

\* _TRAIN_START_TIME as each rank measured it when its process started:
\* the same on every rank, or later on the first rank (the ranks differ
\* only where the start time is read, with a wall-time budget)
StartTimes(a) ==
  IF a.exit_duration_in_mins = 0 THEN {[r \in Ranks |-> 0]}
  ELSE {[r \in Ranks |-> 0], [r \in Ranks |-> IF r = 1 THEN 1 ELSE 0]}

\* ------------------------------------------------------ floating point
\* the float values told apart: finite ones, the infinities and NaN
Fin(n) == [kind |-> "finite", v |-> n]
PosInf == [kind |-> "inf", v |-> 0]
NegInf == [kind |-> "-inf", v |-> 0]
NaN == [kind |-> "nan", v |-> 0]

\* a == b on floats: NaN equals nothing, itself included
FloatEq(a, b) == a.kind # "nan" /\ b.kind # "nan" /\ a = b

\* a + b on floats
FloatAdd(a, b) ==
  IF a.kind = "nan" \/ b.kind = "nan" THEN NaN
  ELSE IF a.kind = "finite" /\ b.kind = "finite" THEN Fin(a.v + b.v)
  ELSE IF a.kind = "finite" THEN b
  ELSE IF b.kind = "finite" THEN a
  ELSE IF a = b THEN a
  ELSE NaN

\* a / d for an integer divisor d: division by zero raises
FloatDiv(a, d) == [raised |-> d = 0, num |-> a, den |-> d]

\* ---------------------------------------------------- idle components
\* no training_log call yet: the empty total_loss_dict of train
\* (loss: the per-key totals, a function on the loss keys seen so far)
EmptyTotals ==
  [loss |-> [key \in {} |-> Fin(0)], advanced |-> 0, skipped |-> 0, nan |-> 0]

NoLog ==
  [iteration |-> 0, loss_dict |-> [key \in {} |-> Fin(0)], skipped_iter |-> 0,
   before |-> EmptyTotals, reported |-> EmptyTotals,
   avg |-> [key \in {} |-> FloatDiv(Fin(0), 1)],
   total_iterations |-> 0, logged |-> FALSE]

LogIdle ==
  /\ total_loss_dict = EmptyTotals
  /\ log = NoLog

\* the processes of the pipeline-parallel x data-parallel grid
Grid == (0 .. NRanks - 1) \X (0 .. NRanks - 1)

\* no random source has been seeded
Unseeded == [random |-> {}, numpy |-> {}, torch |-> {}, cuda |-> {}]

NoRng(count) ==
  [device_count |-> count,
   sources |-> [g \in Grid |-> Unseeded],
   outcome |-> [g \in Grid |-> "not called"]]

SeedIdle == rng = NoRng(0)

\* a value that may be None: None or an integer
NoneSeed == [none |-> TRUE, v |-> 0]
IntSeed(n) == [none |-> FALSE, v |-> n]

\* train_step has not returned
NoReturn ==
  [loss_reduced |-> [key \in {} |-> FloatDiv(Fin(0), 1)],
   skipped_iter |-> 0, grad_norm |-> NoneSeed,
   num_zeros_in_grad |-> NoneSeed]

NoStep ==
  [pc |-> "idle", ops |-> <<>>, update_successful |-> FALSE,
   skipped_iter |-> 0, increments |-> <<>>, calls |-> 0,
   is_pipeline_last_stage |-> FALSE, losses_reduced |-> <<>>,
   grad_norm |-> NoneSeed, num_zeros_in_grad |-> NoneSeed,
   returned |-> NoReturn]

StepIdle == tstep = NoStep

\* update_train_iters has not been called
NoIters ==
  [pc |-> "idle", iterations |-> 0, consumed_samples |-> 0,
   batches |-> <<>>, microbatches |-> <<>>, train_iters |-> 0]

ItersIdle == uti = NoIters

\* no micro-batch calculator has been built
NoCalc ==
  [pc |-> "idle", steps |-> 0, before |-> 0, consumed |-> 0,
   current_global_batch_size |-> 0, num_microbatches |-> 0]

CalcIdle == calc = NoCalc

\* the processes of the largest world
World == 0 .. MaxWorld - 1

\* a process that has not initialized model parallelism
NoTopology ==
  [initialized |-> FALSE, tensor |-> {}, pipeline |-> {}, data |-> {}]

TopoIdle == topo = [r \in World |-> NoTopology]

\* get_model has not been called; rank is the virtual-pipeline rank of mpu
NoModel(rank) ==
  [pc |-> "idle", i |-> 0, virtual_rank |-> rank, before |-> rank,
   model |-> <<>>]

ModelIdle == gm = NoModel(NoneSeed)

\* a process that read the clock at `measured` when training.py was
\* imported and has not reached the adjustment in pretrain
NoWall(measured) ==
  [pc |-> "start", measured |-> measured, start |-> measured,
   time |-> measured, done_cuda |-> 0]

WallIdle == wall = [r \in Ranks |-> NoWall(0)]

\* train has been entered and has reported to no sink
NoSink ==
  [pc |-> "init_wandb", iteration |-> 0, consumed_train_samples |-> 0,
   error |-> "", logged |-> 0]

SinkIdle == sink = NoSink

\* a rank at the head of the loop of train
NoSave == [pc |-> "train_step", iteration |-> 0]

SaveIdle == sct = [r \in Ranks |-> NoSave]

\* a process that has entered _compile_dependencies
NoCompile ==
  [i |-> 1, compiled |-> FALSE, warned |-> FALSE, loaded |-> FALSE,
   barriers |-> 0]

CompileIdle == cdep = [r \in Ranks |-> NoCompile]

\* two processes of the grid, neither seeded
NoPair ==
  [pc |-> "idle", a |-> <<0, 0>>, b |-> <<0, 0>>, seed_a |-> 0, seed_b |-> 0]

PairIdle == pair = NoPair

\* evaluate has not been called; the partitions are in training mode and
\* the counters of the run are at `cvs`, `cts`, `it`
NoEval(cvs, cts, it) ==
  [pc |-> "idle", iteration |-> 0, forward_only |-> 0,
   consumed_valid_samples |-> cvs, consumed_train_samples |-> cts,
   train_iteration |-> it, before |-> cvs,
   training |-> [m \in 1 .. 2 |-> TRUE], collected |-> FALSE]

EvalIdle == ev = NoEval(0, 0, 0)

\* no checkpoint of the validation counters
NoValidCkpt == [iteration |-> 0, consumed_valid_samples |-> 0,
                drawn |-> <<>>]

\* a run that has loaded nothing and built no validation loader; drawn is
\* the number of samples each validation dataset has given so far
NoValid(n) ==
  [pc |-> "build", iteration |-> 0, consumed_valid_samples |-> 0,
   drawn |-> [i \in 1 .. n |-> 0], start |-> [i \in 1 .. n |-> 0],
   ckpt |-> NoValidCkpt, loaded |-> NoValidCkpt, runs |-> 1]

ValidIdle == vd = NoValid(0)

\* the counters load_checkpoint left, before the data iterators are built
NoCompat(it, cts, cvs) ==
  [pc |-> "build", iteration |-> it, consumed_train_samples |-> cts,
   consumed_valid_samples |-> cvs, loaded_train_samples |-> cts,
   raised |-> "none"]

CompatIdle == bc = NoCompat(0, 0, 0)

\* the training iterator (index 0) and n evaluation iterators, from which
\* nothing was drawn
NoEvalIters(n) ==
  [pc |-> "build", iterators |-> <<>>,
   yielded |-> [i \in 0 .. n |-> <<>>],
   stopped |-> [i \in 0 .. n |-> FALSE]]

ItersBuiltIdle == di = NoEvalIters(0)

\* _tokenize_prompts_and_batch has not been called
NoBatch ==
  [pc |-> "call", tokens |-> <<>>, lengths |-> <<>>, raised |-> "none"]

BatchIdle == tk = NoBatch

\* initialize_megatron has not been called; calls lists the steps done,
\* at counts the steps of the running function
NoInitialize ==
  [pc |-> "initialize", at |-> 0, calls |-> <<>>, ret |-> "unset",
   raised |-> "none"]

InitializeIdle == im = NoInitialize

UnitIdle ==
  /\ LogIdle /\ SeedIdle /\ StepIdle /\ ItersIdle /\ CalcIdle /\ TopoIdle
  /\ ModelIdle /\ WallIdle /\ SinkIdle /\ SaveIdle /\ CompileIdle /\ PairIdle /\ EvalIdle /\ ValidIdle /\ CompatIdle /\ ItersBuiltIdle /\ BatchIdle /\ InitializeIdle

\* the training job is not run
TrainIdle ==
  /\ pc = [r \in Ranks |-> "idle"]
  /\ ret = [r \in Ranks |-> "none"]
  /\ iteration = [r \in Ranks |-> 0]
  /\ consumed_train_samples = [r \in Ranks |-> 0]
  /\ consumed_valid_samples = [r \in Ranks |-> 0]
  /\ num_microbatches = [r \in Ranks |-> 0]
  /\ num_steps = [r \in Ranks |-> 0]
  /\ update_successful = [r \in Ranks |-> TRUE]
  /\ skipped_iter = [r \in Ranks |-> 0]
  /\ saved_checkpoint = [r \in Ranks |-> FALSE]
  /\ done_cuda = [r \in Ranks |-> 0]
  /\ train_start_time = [r \in Ranks |-> 0]
  /\ train_dataloader = [r \in Ranks |-> -1]
  /\ latest = 0
  /\ store = [r \in Ranks |-> NoCkpt]
  /\ now = 1
  /\ signal_received = [r \in Ranks |-> FALSE]
  /\ restarts = 0
  /\ loaded = [r \in Ranks |-> NoCkpt]
  /\ writes = [r \in Ranks |-> <<>>]
  /\ iter_saves = [r \in Ranks |-> 0]
  /\ iter_evals = [r \in Ranks |-> 0]
  /\ final_pass = [r \in Ranks |-> <<>>]
  /\ planned = [r \in Ranks |-> 0]
  /\ steps = [r \in Ranks |-> 0]
  /\ poll_flags = {}
  /\ legacy_store = FALSE

\* ---------------------------------------------------------------- Init
Init ==
  /\ args \in Args
  /\ ~args.save => args.save_interval = 0   \* read only with args.save set
  /\ pc = [r \in Ranks |-> "start"]
  /\ ret = [r \in Ranks |-> "none"]
  /\ iteration = [r \in Ranks |-> 0]
  /\ consumed_train_samples = [r \in Ranks |-> 0]
  /\ consumed_valid_samples = [r \in Ranks |-> 0]
  /\ num_microbatches = [r \in Ranks |-> get_num_microbatches(args, 0)]
  /\ num_steps = [r \in Ranks |-> 0]
  /\ update_successful = [r \in Ranks |-> TRUE]
  /\ skipped_iter = [r \in Ranks |-> 0]
  /\ saved_checkpoint = [r \in Ranks |-> FALSE]
  /\ done_cuda = [r \in Ranks |-> 0]
  /\ train_start_time \in StartTimes(args)
  /\ train_dataloader = [r \in Ranks |-> -1]
  /\ latest \in (IF args.load THEN 0..MaxIters ELSE {0})
  /\ store = IF latest = 0 THEN [r \in Ranks |-> NoCkpt]
             ELSE LegacyStore(args, latest)
  /\ now = 1
  /\ signal_received = [r \in Ranks |-> FALSE]
  /\ restarts = 0
  /\ loaded = [r \in Ranks |-> NoCkpt]
  /\ writes = [r \in Ranks |-> <<>>]
  /\ iter_saves = [r \in Ranks |-> 0]
  /\ iter_evals = [r \in Ranks |-> 0]
  /\ final_pass = [r \in Ranks |-> <<>>]
  /\ planned = [r \in Ranks |-> 0]
  /\ steps = [r \in Ranks |-> 0]
  /\ poll_flags = {}
  /\ legacy_store = (latest # 0)
  /\ UnitIdle

\* ------------------------------------------------------------- frames
envVars == <<now, signal_received, restarts>>
ckptVars == <<store, latest, writes, iter_saves>>
countVars == <<iteration, consumed_train_samples, consumed_valid_samples,
               num_microbatches>>
stepVars == <<num_steps, update_successful, skipped_iter, steps>>
miscVars == <<saved_checkpoint, done_cuda, train_start_time, train_dataloader,
              loaded, planned, poll_flags, legacy_store>>

\* ---------------------------------------------------------- collectives
\* the positions at which a rank waits in torch.distributed.barrier()
BarrierPcs == {"pd_init", "load_b1", "load_b2", "pd_setup", "pd_data",
               "pd_train", "sct_b1", "sct_b2",
               "signal_bye", "duration_bye", "exit_barrier", "exit_bye"}

\* variant: the termination paths leave the loop and return to pretrain
SysExit_Returns(a) == IF do_valid(a) THEN "final_eval" ELSE "final_save"

\* sys.exit() in train ends the process
SysExit(a) == "exited"

\* where a rank continues when the barrier it waits in completes
BarrierNext(p, rt, a) ==
  CASE p = "pd_init" -> "setup"
    [] p = "load_b1" -> "load"
    [] p = "load_b2" -> "pd_setup"
    [] p = "pd_setup" -> "build_iters"
    [] p = "pd_data" -> "pd_train"
    [] p = "pd_train" -> "loop_head"
    [] p = "sct_b1" -> "sct_write"
    [] p = "sct_b2" -> rt
    [] p = "signal_bye" -> SysExit(a)
    [] p = "duration_bye" -> SysExit(a)
    [] p = "exit_barrier" -> "exit_bye"
    [] p = "exit_bye" -> SysExit(a)
    [] p = "pd_after" -> IF do_valid(a) THEN "final_eval" ELSE "final_save"

\* the barrier rank r waits in, "" if none: a rank that leaves train's loop
\* (iteration >= args.train_iters) returns to pretrain and enters
\* print_datetime('after training is done')
AtBarrier(r) ==
  IF pc[r] \in BarrierPcs THEN pc[r]
  ELSE IF pc[r] = "loop_head" /\ ~(iteration[r] < args.train_iters)
    THEN "pd_after"
  ELSE ""

\* torch.distributed.barrier(): completes when every rank has entered one
Barrier ==
  /\ \A r \in Ranks : AtBarrier(r) # ""
  /\ pc' = [r \in Ranks |-> BarrierNext(AtBarrier(r), ret[r], args)]
  /\ UNCHANGED <<unitVars, iter_evals, final_pass, args, ret, countVars, stepVars, miscVars, ckptVars, envVars>>

\* variant: all_reduce(start_time_tensor, op=MAX), "the largest value"
AllReduceStart_Max(times) ==
  CHOOSE t \in {times[r] : r \in Ranks} : \A r \in Ranks : t >= times[r]

\* all_reduce(start_time_tensor, op=torch.distributed.ReduceOp.MIN)
AllReduceStart(times) ==
  CHOOSE t \in {times[r] : r \in Ranks} : \A r \in Ranks : t <= times[r]

\* pretrain: all_reduce(start_time_tensor, op=MIN); then print_datetime
AllReduceStartTime ==
  /\ \A r \in Ranks : pc[r] = "start"
  /\ train_start_time' =
       [r \in Ranks |-> AllReduceStart(train_start_time)]
  /\ pc' = [r \in Ranks |-> "pd_init"]
  /\ UNCHANGED <<unitVars, iter_evals, final_pass, args, ret, countVars, stepVars, saved_checkpoint, done_cuda,
                 train_dataloader, loaded, planned, poll_flags, legacy_store,
                 ckptVars, envVars>>

\* --------------------------------------------------------------- setup
\* setup_model_and_optimizer: args.load decides between loading and
\* args.iteration = 0
Setup(r) ==
  /\ pc[r] = "setup"
  /\ IF args.load
       THEN /\ pc' = [pc EXCEPT ![r] = "load_b1"]
            /\ UNCHANGED iteration
       ELSE /\ pc' = [pc EXCEPT ![r] = "pd_setup"]
            /\ iteration' = [iteration EXCEPT ![r] = 0]
  /\ UNCHANGED <<unitVars, iter_evals, final_pass, args, ret, consumed_train_samples, consumed_valid_samples,
                 num_microbatches, stepVars, miscVars, ckptVars, envVars>>

\* the shard of rank r in the checkpoint the tracker names, NoCkpt if none
LatestShard(r) ==
  IF latest = 0 \/ store[r].iteration # latest THEN NoCkpt ELSE store[r]

\* the consumed_train_samples load_checkpoint restores from checkpoint c
RestoredTrainSamples(c) ==
  IF c.has_counters THEN c.consumed_train_samples ELSE 0

\* load_checkpoint: restores the iteration, the sample counters (0 when the
\* checkpoint has none) and the micro-batch count; returns iteration 0 when
\* there is no checkpoint. (The model, optimizer and scheduler state it also
\* restores are opaque here: num_steps counts from the start of the run.)
LoadCheckpoint(r) ==
  /\ pc[r] = "load"
  /\ LET c == LatestShard(r) IN
       /\ loaded' = [loaded EXCEPT ![r] = c]
       /\ IF c = NoCkpt
            THEN /\ iteration' = [iteration EXCEPT ![r] = 0]
                 /\ UNCHANGED <<consumed_train_samples, consumed_valid_samples,
                                num_microbatches>>
            ELSE /\ iteration' = [iteration EXCEPT ![r] = c.iteration]
                 /\ consumed_train_samples' =
                      [consumed_train_samples EXCEPT ![r] = RestoredTrainSamples(c)]
                 /\ consumed_valid_samples' =
                      [consumed_valid_samples EXCEPT ![r] =
                         IF c.has_counters THEN c.consumed_valid_samples ELSE 0]
                 /\ num_microbatches' =
                      [num_microbatches EXCEPT ![r] =
                         get_num_microbatches(args, RestoredTrainSamples(c))]
  /\ pc' = [pc EXCEPT ![r] = "load_b2"]
  /\ UNCHANGED <<unitVars, iter_evals, final_pass, args, ret, stepVars, saved_checkpoint, done_cuda,
                 train_start_time, train_dataloader, planned, poll_flags,
                 legacy_store, ckptVars, envVars>>

\* variant: the counter is derived from the iteration whenever iteration > 0
CompatTrainSamples_FromIteration(a, it, cts) ==
  IF it > 0 THEN it * a.global_batch_size ELSE cts

\* build_train_valid_test_data_iterators, backward compatibility: the sample
\* counters of a checkpoint that has none are derived from the iteration
CompatTrainSamples(a, it, cts) ==
  IF it > 0 /\ cts = 0 THEN it * a.global_batch_size ELSE cts

CompatValidSamples(a, it, cvs) ==
  IF it > 0 /\ cvs = 0
    THEN (it \div a.eval_interval) * a.eval_iters * a.global_batch_size
    ELSE cvs

\* variant: the loader offset is iteration * global_batch_size
TrainLoaderStart_FromIteration(a, it, cts) == it * a.global_batch_size

\* the consumed-samples offset build_pretraining_data_loader is given
TrainLoaderStart(a, it, cts) == CompatTrainSamples(a, it, cts)

BuildDataIterators(r) ==
  /\ pc[r] = "build_iters"
  /\ consumed_train_samples' =
       [consumed_train_samples EXCEPT ![r] =
          CompatTrainSamples(args, iteration[r], @)]
  /\ consumed_valid_samples' =
       [consumed_valid_samples EXCEPT ![r] =
          CompatValidSamples(args, iteration[r], @)]
  /\ train_dataloader' =
       [train_dataloader EXCEPT ![r] =
          TrainLoaderStart(args, iteration[r], consumed_train_samples[r])]
  /\ pc' = [pc EXCEPT ![r] = "pd_data"]
  /\ UNCHANGED <<unitVars, iter_evals, final_pass, args, ret, iteration, num_microbatches, stepVars,
                 saved_checkpoint, done_cuda, train_start_time, loaded,
                 planned, poll_flags, legacy_store, ckptVars, envVars>>

\* --------------------------------------------------------------- train
\* variant: the schedule is advanced after every step
SchedulerAfterStep_Always(a, ok, ns, nmb) ==
  ns + nmb * a.micro_batch_size * data_parallel_size

\* variant: skipped_iter is left at 0
SkippedIter_Never(ok) == 0

\* train_step, "Update learning rate": opt_param_scheduler.step(increment)
\* only after a successful update
SchedulerAfterStep(a, ok, ns, nmb) ==
  IF ok THEN ns + nmb * a.micro_batch_size * data_parallel_size ELSE ns

\* train_step's skipped_iter
SkippedIter(ok) == IF ok THEN 0 ELSE 1

\* variant: the counter advances by two
IterationAfterStep_Two(it) == it + 2

\* train, after train_step: iteration += 1
IterationAfterStep(it) == it + 1

\* variant: the counter advances by the final global batch size
ConsumedAfterStep_FinalBatch(a, cts, nmb) == cts + a.global_batch_size

\* variant: the counter advances by one micro-batch per replica
ConsumedAfterStep_OneMicrobatch(a, cts, nmb) ==
  cts + data_parallel_size * a.micro_batch_size

\* train, after train_step: args.consumed_train_samples +=
\* data-parallel size * micro_batch_size * get_num_microbatches()
ConsumedAfterStep(a, cts, nmb) ==
  cts + data_parallel_size * a.micro_batch_size * nmb

\* one pass of `while iteration < args.train_iters` up to the first block
\* of the iteration that is entered, on every rank:
\* update_num_microbatches(args.consumed_train_samples), then train_step,
\* whose forward-backward pass and gradient reduction are collective and
\* whose optimizer.step() reports the same update_successful on every rank,
\* then the counters and saved_checkpoint = False
TrainStep ==
  /\ \A r \in Ranks : pc[r] = "loop_head" /\ iteration[r] < args.train_iters
  /\ num_microbatches' =
       [r \in Ranks |-> get_num_microbatches(args, consumed_train_samples[r])]
  /\ planned' =
       [r \in Ranks |-> planned[r] +
          get_current_global_batch_size(args, consumed_train_samples[r])]
  /\ \E ok \in BOOLEAN :
       /\ update_successful' = [r \in Ranks |-> ok]
       /\ num_steps' =
            [r \in Ranks |->
               SchedulerAfterStep(args, ok, num_steps[r], num_microbatches'[r])]
       /\ skipped_iter' = [r \in Ranks |-> SkippedIter(ok)]
  /\ steps' = [r \in Ranks |-> steps[r] + 1]
  /\ iteration' = [r \in Ranks |-> IterationAfterStep(iteration[r])]
  /\ consumed_train_samples' =
       [r \in Ranks |->
          ConsumedAfterStep(args, consumed_train_samples[r],
                            num_microbatches'[r])]
  /\ saved_checkpoint' = [r \in Ranks |-> FALSE]
  /\ iter_saves' = [r \in Ranks |-> 0]
  /\ iter_evals' = [r \in Ranks |-> 0]
  /\ pc' = [r \in Ranks |-> After(0, args, iteration'[r])]
  /\ UNCHANGED <<unitVars, final_pass, args, ret, consumed_valid_samples, done_cuda,
                 train_start_time, train_dataloader, loaded, poll_flags,
                 legacy_store, store, latest, writes, envVars>>

\* save_checkpoint(iteration, ...) by rank r: writes the rank's shard with
\* the counters of args and names the iteration in the tracker
SaveCheckpoint(r) ==
  /\ store' = [store EXCEPT ![r] =
                 Shard(iteration[r], consumed_train_samples[r],
                       consumed_valid_samples[r], TRUE)]
  /\ latest' = iteration[r]
  /\ writes' = [writes EXCEPT ![r] = Append(@, iteration[r])]
  /\ iter_saves' = [iter_saves EXCEPT ![r] = @ + 1]

\* check_adlr_autoresume_termination: a barrier, then the service's answer,
\* the same on every rank: on a termination request save (if args.save)
\* and exit
AutoresumeBarrier ==
  /\ \A r \in Ranks : pc[r] = "autoresume_barrier"
  /\ \E requested \in BOOLEAN :
       pc' = [r \in Ranks |->
                IF requested THEN "autoresume_exit"
                ELSE After(1, args, iteration[r])]
  /\ UNCHANGED <<unitVars, iter_evals, final_pass, args, ret, countVars, stepVars, miscVars, ckptVars, envVars>>

AutoresumeExit(r) ==
  /\ pc[r] = "autoresume_exit"
  /\ IF args.save THEN SaveCheckpoint(r) ELSE UNCHANGED ckptVars
  /\ pc' = [pc EXCEPT ![r] = "exited"]
  /\ UNCHANGED <<unitVars, iter_evals, final_pass, args, ret, countVars, stepVars, miscVars, envVars>>

\* evaluate: args.consumed_valid_samples after eval_iters forward-only
\* iterations on each of the validation datasets
ConsumedValidAfterEvaluate(a, cvs, nmb) ==
  cvs + a.num_valid_ds * a.eval_iters
          * (data_parallel_size * a.micro_batch_size * nmb)

\* train, "Evaluation": evaluate_and_print_results for every validation
\* set; the forward-only passes are collective
Evaluate ==
  /\ \A r \in Ranks : pc[r] = "eval"
  /\ consumed_valid_samples' =
       [r \in Ranks |->
          ConsumedValidAfterEvaluate(args, consumed_valid_samples[r],
                                     num_microbatches[r])]
  /\ iter_evals' = [r \in Ranks |-> iter_evals[r] + 1]
  /\ pc' = [r \in Ranks |-> After(2, args, iteration[r])]
  /\ UNCHANGED <<unitVars, final_pass, args, ret, iteration, consumed_train_samples,
                 num_microbatches, stepVars, miscVars, ckptVars, envVars>>

\* ------------------------------------------------- checkpoint saving
\* variant: save_checkpoint_and_time without its first barrier
SaveCheckpointAndTimeEntry_NoBarrier == "sct_write"

\* save_checkpoint_and_time starts in its first barrier
SaveCheckpointAndTimeEntry == "sct_b1"

\* save_checkpoint_and_time, after save_checkpoint: the second barrier
SaveCheckpointAndTimeAfterWrite(rt) == "sct_b2"

\* save_checkpoint_and_time between its two barriers
SaveCheckpointAndTimeWrite(r) ==
  /\ pc[r] = "sct_write"
  /\ SaveCheckpoint(r)
  /\ pc' = [pc EXCEPT ![r] = SaveCheckpointAndTimeAfterWrite(ret[r])]
  /\ UNCHANGED <<unitVars, iter_evals, final_pass, args, ret, countVars, stepVars, miscVars, envVars>>

\* variant: only the first gathered flag is looked at
AnySignal_First(flags) == flags[1]

\* signal_handler.signals_received(): every rank's flag, gathered
signals_received == [q \in Ranks |-> signal_received[q]]

\* train: any(signal_handler.signals_received())
AnySignal(flags) == \E q \in Ranks : flags[q]

\* train, "Checkpointing", with args.exit_signal_handler: all ranks gather
\* the flags; on a signal save_checkpoint_and_time, print_datetime, exit
SignalCheck ==
  /\ \A r \in Ranks : pc[r] = "signal_gather"
  /\ IF AnySignal(signals_received)
       THEN /\ pc' = [r \in Ranks |-> SaveCheckpointAndTimeEntry]
            /\ ret' = [r \in Ranks |-> "signal_bye"]
       ELSE /\ pc' = [r \in Ranks |-> After(3, args, iteration[r])]
            /\ UNCHANGED ret
  /\ UNCHANGED <<unitVars, iter_evals, final_pass, args, countVars, stepVars, miscVars, ckptVars, envVars>>

\* train: the save on the save-interval boundary
SaveInterval(r) ==
  /\ pc[r] = "save_interval"
  /\ pc' = [pc EXCEPT ![r] = SaveCheckpointAndTimeEntry]
  /\ ret' = [ret EXCEPT ![r] = "saved"]
  /\ UNCHANGED <<unitVars, iter_evals, final_pass, args, countVars, stepVars, miscVars, ckptVars, envVars>>

\* train: saved_checkpoint = True after the save-interval save
Saved(r) ==
  /\ pc[r] = "saved"
  /\ saved_checkpoint' = [saved_checkpoint EXCEPT ![r] = TRUE]
  /\ pc' = [pc EXCEPT ![r] = After(4, args, iteration[r])]
  /\ UNCHANGED <<unitVars, iter_evals, final_pass, args, ret, countVars, stepVars, done_cuda, train_start_time,
                 train_dataloader, loaded, planned, poll_flags, legacy_store,
                 ckptVars, envVars>>

\* train, "Exiting based on duration": train_time > args.exit_duration_in_mins
OverBudget(a, t, start) == (t - start) > a.exit_duration_in_mins

\* time.time() is read: the clock has not gone back since the last reading
DurationPoll(r) ==
  /\ pc[r] = "duration"
  /\ \E t \in now..MaxTime :
       /\ now' = t
       /\ done_cuda' =
            [done_cuda EXCEPT ![r] =
               IF OverBudget(args, t, train_start_time[r]) THEN 1 ELSE 0]
  /\ pc' = [pc EXCEPT ![r] = "duration_allreduce"]
  /\ UNCHANGED <<unitVars, iter_evals, final_pass, args, ret, countVars, stepVars, saved_checkpoint,
                 train_start_time, train_dataloader, loaded, planned,
                 poll_flags, legacy_store, ckptVars, signal_received,
                 restarts>>

\* variant: all_reduce(done_cuda, op=MIN)
AllReduceMin(flags) ==
  CHOOSE m \in {flags[q] : q \in Ranks} : \A q \in Ranks : m <= flags[q]

\* all_reduce(done_cuda, op=MAX)
AllReduceMax(flags) ==
  CHOOSE m \in {flags[q] : q \in Ranks} : \A q \in Ranks : flags[q] <= m

\* train: after the all-reduce, if done: save unless saved_checkpoint,
\* print_datetime, exit
DurationBranch(done, saved) ==
  IF done # 0
    THEN IF ~saved THEN SaveCheckpointAndTimeEntry ELSE "duration_bye"
    ELSE "continue"

\* variant: no all-reduce, every rank keeps the flag it computed
DoneAfterAllReduce_Local(flags, r) == flags[r]

\* done = done_cuda.item() on rank r after the all-reduce
DoneAfterAllReduce(flags, r) == AllReduceMax(flags)

DurationAllReduce ==
  /\ \A r \in Ranks : pc[r] = "duration_allreduce"
  /\ LET done == [r \in Ranks |-> DoneAfterAllReduce(done_cuda, r)] IN
       /\ done_cuda' = done
       /\ poll_flags' = {done_cuda[q] : q \in Ranks}
       /\ pc' = [r \in Ranks |->
                   IF DurationBranch(done[r], saved_checkpoint[r]) = "continue"
                     THEN After(5, args, iteration[r])
                     ELSE DurationBranch(done[r], saved_checkpoint[r])]
       /\ ret' = [r \in Ranks |->
                    IF done[r] # 0 THEN "duration_bye" ELSE ret[r]]
  /\ UNCHANGED <<unitVars, iter_evals, final_pass, args, countVars, stepVars, saved_checkpoint, train_start_time,
                 train_dataloader, loaded, planned, legacy_store, ckptVars,
                 envVars>>

\* variant: the exit-interval save does not look at saved_checkpoint
ExitIntervalBranch_AlwaysSave(saved) == SaveCheckpointAndTimeEntry

\* variant: a rank that has saved exits without barrier or print_datetime
ExitIntervalBranch_NoBarrier(saved) ==
  IF ~saved THEN SaveCheckpointAndTimeEntry ELSE "exited"

\* train, "Exiting based on iterations": save unless saved_checkpoint
ExitIntervalBranch(saved) ==
  IF ~saved THEN SaveCheckpointAndTimeEntry ELSE "exit_barrier"

ExitInterval(r) ==
  /\ pc[r] = "exit_interval"
  /\ pc' = [pc EXCEPT ![r] = ExitIntervalBranch(saved_checkpoint[r])]
  /\ ret' = [ret EXCEPT ![r] = "exit_barrier"]
  /\ UNCHANGED <<unitVars, iter_evals, final_pass, args, countVars, stepVars, miscVars, ckptVars, envVars>>

\* ----------------------------------------------------- after training
\* pretrain: the final evaluation when args.do_valid
FinalEval ==
  /\ \A r \in Ranks : pc[r] = "final_eval"
  /\ consumed_valid_samples' =
       [r \in Ranks |->
          ConsumedValidAfterEvaluate(args, consumed_valid_samples[r],
                                     num_microbatches[r])]
  /\ final_pass' = [r \in Ranks |-> Append(final_pass[r], "evaluate")]
  /\ pc' = [r \in Ranks |-> "final_save"]
  /\ UNCHANGED <<unitVars, iter_evals, args, ret, iteration, consumed_train_samples,
                 num_microbatches, stepVars, miscVars, ckptVars, envVars>>

\* pretrain: if args.save and iteration != 0: save_checkpoint(...)
FinalSaveCond(a, it) == a.save /\ it # 0

FinalSave(r) ==
  /\ pc[r] = "final_save"
  /\ IF FinalSaveCond(args, iteration[r])
       THEN /\ SaveCheckpoint(r)
            /\ final_pass' =
                 [final_pass EXCEPT ![r] = Append(@, "save_checkpoint")]
       ELSE UNCHANGED <<ckptVars, final_pass>>
  /\ pc' = [pc EXCEPT ![r] = "done"]
  /\ UNCHANGED <<unitVars, iter_evals, args, ret, countVars, stepVars, miscVars, envVars>>

\* --------------------------------------------------------- environment
Finished(r) == pc[r] \in {"exited", "done"}

\* SIGTERM is delivered to rank r, whose handler records it; the flag is
\* read by the poll of train alone, so the delivery is placed at the poll
Signal(r) ==
  /\ args.exit_signal_handler
  /\ pc[r] = "signal_gather"
  /\ ~signal_received[r]
  /\ signal_received' = [signal_received EXCEPT ![r] = TRUE]
  /\ UNCHANGED <<unitVars, iter_evals, final_pass, args, pc, ret, countVars, stepVars, miscVars, ckptVars,
                 now, restarts>>

\* the job is started again with the same arguments (--load set) after
\* every process of the previous run has ended
Restart ==
  /\ \A r \in Ranks : Finished(r)
  /\ restarts < MaxRestarts
  /\ restarts' = restarts + 1
  /\ args.load
  /\ pc' = [r \in Ranks |-> "start"]
  /\ ret' = [r \in Ranks |-> "none"]
  /\ iteration' = [r \in Ranks |-> 0]
  /\ consumed_train_samples' = [r \in Ranks |-> 0]
  /\ consumed_valid_samples' = [r \in Ranks |-> 0]
  /\ num_microbatches' = [r \in Ranks |-> get_num_microbatches(args, 0)]
  /\ num_steps' = [r \in Ranks |-> 0]
  /\ update_successful' = [r \in Ranks |-> TRUE]
  /\ skipped_iter' = [r \in Ranks |-> 0]
  /\ saved_checkpoint' = [r \in Ranks |-> FALSE]
  /\ done_cuda' = [r \in Ranks |-> 0]
  /\ train_start_time' \in StartTimes(args)
  /\ train_dataloader' = [r \in Ranks |-> -1]
  /\ now' = 1
  /\ signal_received' = [r \in Ranks |-> FALSE]
  /\ loaded' = [r \in Ranks |-> NoCkpt]
  /\ writes' = [r \in Ranks |-> <<>>]
  /\ iter_saves' = [r \in Ranks |-> 0]
  /\ iter_evals' = [r \in Ranks |-> 0]
  /\ final_pass' = [r \in Ranks |-> <<>>]
  /\ planned' = [r \in Ranks |-> 0]
  /\ steps' = [r \in Ranks |-> 0]
  /\ poll_flags' = {}
  /\ UNCHANGED <<unitVars, args, store, latest, legacy_store>>

\* --------------------------------------------------------- training_log
\* the arguments training_log reads
LogArgs == [log_interval : {1, 2}]

\* the loss values a step reports
Floats == {Fin(n) : n \in 0..MaxLoss} \cup {PosInf, NegInf, NaN}

\* the keys of loss_dict: none off the last pipeline stage
LossKeySets == {{}, {"lm loss"}, {"lm loss", "sop loss"}}

\* training_log: value == inf or value == -inf or value != value
is_nan(value) ==
  FloatEq(value, PosInf) \/ FloatEq(value, NegInf) \/ ~FloatEq(value, value)

\* variant: the loss values are tested on every iteration
GotNan_EveryIteration(loss_dict, skipped) ==
  \E key \in DOMAIN loss_dict : is_nan(loss_dict[key])

\* training_log, got_nan: the values are tested in the else branch of
\* `if not skipped_iter` only
GotNan(loss_dict, skipped) ==
  \E key \in DOMAIN loss_dict : skipped # 0 /\ is_nan(loss_dict[key])

\* variant: the losses are added on skipped iterations too
TotalsAfter_Always(loss, loss_dict, skipped) ==
  [key \in DOMAIN loss \cup DOMAIN loss_dict |->
     IF key \in DOMAIN loss_dict
       THEN FloatAdd(IF key \in DOMAIN loss THEN loss[key] ELSE Fin(0),
                     loss_dict[key])
       ELSE loss[key]]

\* training_log, "Update losses": total_loss_dict[key] =
\* total_loss_dict.get(key, 0.0) + loss_dict[key] if not skipped_iter
TotalsAfter(loss, loss_dict, skipped) ==
  IF skipped = 0
    THEN [key \in DOMAIN loss \cup DOMAIN loss_dict |->
            IF key \in DOMAIN loss_dict
              THEN FloatAdd(IF key \in DOMAIN loss THEN loss[key] ELSE Fin(0),
                            loss_dict[key])
              ELSE loss[key]]
    ELSE loss

\* training_log, "Advanced, skipped, and Nan iterations" and the losses
Accumulate(tld, loss_dict, skipped) ==
  [loss |-> TotalsAfter(tld.loss, loss_dict, skipped),
   advanced |-> IF skipped = 0 THEN tld.advanced + 1 ELSE tld.advanced,
   skipped |-> tld.skipped + skipped,
   nan |-> tld.nan + (IF GotNan(loss_dict, skipped) THEN 1 ELSE 0)]

\* variant: the divisor is the number of advanced iterations
AvgDivisor_Advanced(advanced) == advanced

\* training_log: float(max(1, total_loss_dict[advanced_iters_key]))
AvgDivisor(advanced) == Max(1, advanced)

\* training_log: avg of every loss key in total_loss_dict
Averages(acc) ==
  [key \in DOMAIN acc.loss |->
     FloatDiv(acc.loss[key], AvgDivisor(acc.advanced))]

\* training_log, at the end of the logging branch
ResetTotals(acc) ==
  [loss |-> [key \in DOMAIN acc.loss |-> Fin(0)],
   advanced |-> 0, skipped |-> 0, nan |-> 0]

\* one call of training_log by train, with the iteration just made
TrainingLog ==
  /\ log.iteration < MaxLogIters
  /\ \E ks \in LossKeySets, skipped \in {0, 1} :
       \E loss_dict \in [ks -> Floats] :
         LET it == log.iteration + 1
             acc == Accumulate(total_loss_dict, loss_dict, skipped)
             logging == it % args.log_interval = 0
         IN  /\ total_loss_dict' = (IF logging THEN ResetTotals(acc) ELSE acc)
             /\ log' = [iteration |-> it, loss_dict |-> loss_dict,
                        skipped_iter |-> skipped,
                        before |-> total_loss_dict, reported |-> acc,
                        avg |-> IF logging THEN Averages(acc)
                                ELSE [key \in {} |-> FloatDiv(Fin(0), 1)],
                        total_iterations |-> acc.advanced + acc.skipped,
                        logged |-> logging]
  /\ UNCHANGED <<args, trainVars, exceptLog>>

InitLog ==
  /\ args \in LogArgs
  /\ TrainIdle
  /\ UnitIdle

NextLog == TrainingLog

SpecLog == InitLog /\ [][NextLog]_vars

\* ------------------------------------------------------ _set_random_seed
\* initialize_megatron passes args.seed and args.data_parallel_random_init
SeedArgs ==
  [seed : {NoneSeed} \cup {IntSeed(n) : n \in -1 .. MaxSeed},
   data_parallel_random_init : BOOLEAN]

\* if seed_ is not None and seed_ > 0
SeedIsValid(seed_) == ~seed_.none /\ seed_.v > 0

\* variant: the data-parallel rank is added whatever the flag says
RankSeed_AlwaysDataParallel(seed_, data_parallel_random_init, pp, dp) ==
  seed_.v + 100 * pp + 10 * dp

\* seed = seed_ + 100 * pipeline rank [+ 10 * data-parallel rank]
RankSeed(seed_, data_parallel_random_init, pp, dp) ==
  IF data_parallel_random_init
    THEN (seed_.v + 100 * pp) + 10 * dp
    ELSE seed_.v + 100 * pp

\* random.seed, np.random.seed, torch.manual_seed and, with a device,
\* mpu.model_parallel_cuda_manual_seed are given the seed
SeedSources(src, seed, device_count) ==
  [random |-> src.random \cup {seed},
   numpy |-> src.numpy \cup {seed},
   torch |-> src.torch \cup {seed},
   cuda |-> IF device_count > 0 THEN src.cuda \cup {seed} ELSE src.cuda]

\* the else branch formats the local name seed, which is bound in the
\* other branch only: the evaluation of the argument of ValueError fails
InvalidSeedOutcome == "UnboundLocalError"

\* _set_random_seed(args.seed, args.data_parallel_random_init) on the
\* process with pipeline rank pp and data-parallel rank dp
SetRandomSeed(pp, dp) ==
  /\ rng.outcome[<<pp, dp>>] = "not called"
  /\ IF SeedIsValid(args.seed)
       THEN rng' =
              [rng EXCEPT
                 !.sources[<<pp, dp>>] =
                   SeedSources(@, RankSeed(args.seed,
                                           args.data_parallel_random_init,
                                           pp, dp),
                               rng.device_count),
                 !.outcome[<<pp, dp>>] = "returned"]
       ELSE rng' = [rng EXCEPT !.outcome[<<pp, dp>>] = InvalidSeedOutcome]
  /\ UNCHANGED <<args, trainVars, exceptSeed>>

InitSeed ==
  /\ args \in SeedArgs
  /\ TrainIdle
  /\ InitializeIdle
  /\ BatchIdle
  /\ ItersBuiltIdle
  /\ CompatIdle
  /\ ValidIdle
  /\ EvalIdle
  /\ PairIdle
  /\ CompileIdle
  /\ LogIdle
  /\ StepIdle
  /\ ItersIdle
  /\ CalcIdle
  /\ TopoIdle
  /\ ModelIdle
  /\ WallIdle
  /\ SinkIdle
  /\ SaveIdle
  /\ \E count \in 0 .. 1 : rng = NoRng(count)

NextSeed == \E g \in Grid : SetRandomSeed(g[1], g[2])

SpecSeed == InitSeed /\ [][NextSeed]_vars

\* ------------------------------------------------------------ train_step
StepArgs ==
  [DDP_impl : {"local", "torch"},
   use_contiguous_buffers_in_local_ddp : BOOLEAN,
   empty_unused_memory_level : 0 .. 2,
   vision_dino : BOOLEAN,
   micro_batch_size : {1},
   num_microbatches : {1, 2}]

\* zero_grad_buffer of every partition with the local DDP's contiguous
\* buffers, then optimizer.zero_grad()
ZeroGradOps(a) ==
  (IF a.DDP_impl = "local" /\ a.use_contiguous_buffers_in_local_ddp
     THEN <<"zero_grad_buffer">> ELSE <<>>)
    \o <<"optimizer.zero_grad">>

\* the forward-backward schedule, then empty_cache from level 1
ForwardBackwardOps(a) ==
  <<"forward_backward_func">>
    \o (IF a.empty_unused_memory_level >= 1
          THEN <<"empty_cache">> ELSE <<>>)

\* optimizer.reduce_model_grads, then the vision gradients
ReduceOps(a) ==
  <<"optimizer.reduce_model_grads">>
    \o (IF a.vision_dino
          THEN <<"cancel_gradients_last_layer">> ELSE <<>>)

\* variant: the parameters are gathered whatever optimizer.step returned
GatherOps_Always(a, ok) ==
  <<"optimizer.gather_model_params">>
    \o (IF a.vision_dino THEN <<"update_momentum">> ELSE <<>>)

\* optimizer.gather_model_params if update_successful, then the vision
\* momentum
GatherOps(a, ok) ==
  (IF ok THEN <<"optimizer.gather_model_params">> ELSE <<>>)
    \o (IF a.vision_dino THEN <<"update_momentum">> ELSE <<>>)

\* opt_param_scheduler.step(increment) if update_successful, then
\* empty_cache from level 2
ScheduleOps(a, ok) ==
  (IF ok THEN <<"opt_param_scheduler.step">> ELSE <<>>)
    \o (IF a.empty_unused_memory_level >= 2
          THEN <<"empty_cache">> ELSE <<>>)

\* increment = get_num_microbatches() * micro_batch_size * data_parallel_size
StepIncrement(a) ==
  a.num_microbatches * a.micro_batch_size * data_parallel_size

\* the per-micro-batch loss dictionaries forward_backward_func may return:
\* one dictionary per micro-batch, all with the same keys
LossesReduced(n) ==
  UNION {[1 .. n -> [ks -> 0 .. MaxLoss]] : ks \in LossKeySets \ {{}}}

\* what optimizer.step may return as grad_norm and num_zeros_in_grad
OptionalNumbers == {NoneSeed, IntSeed(1)}

\* sum(xs) of a list of numbers
RECURSIVE sum(_)
sum(xs) == IF xs = <<>> THEN 0 ELSE xs[1] + sum(Tail(xs))

\* variant: the averages are returned on every pipeline stage
LossReduced_EveryStage(last, losses) ==
  [key \in DOMAIN losses[1] |->
     FloatDiv(Fin(sum([i \in 1 .. Len(losses) |-> losses[i][key]])),
              Len(losses))]

\* loss_reduced: on the last pipeline stage, for every key of the first
\* micro-batch, sum(losses_reduced_for_key) / len(losses_reduced_for_key);
\* on the other stages {}
LossReduced(last, losses) ==
  IF last
    THEN [key \in DOMAIN losses[1] |->
            FloatDiv(Fin(sum([i \in 1 .. Len(losses) |-> losses[i][key]])),
                     Len(losses))]
    ELSE [key \in {} |-> FloatDiv(Fin(0), 1)]

\* train calls train_step on a process that owns the last pipeline stage
\* or on one that does not
StepCall ==
  /\ tstep.pc \in {"idle", "returned"}
  /\ tstep.calls < MaxStepCalls
  /\ \E last \in BOOLEAN :
       tstep' = [NoStep EXCEPT !.pc = "zero_grad",
                               !.calls = tstep.calls + 1,
                               !.is_pipeline_last_stage = last]
  /\ UNCHANGED <<args, trainVars, exceptStep>>

StepZeroGrad ==
  /\ tstep.pc = "zero_grad"
  /\ tstep' = [tstep EXCEPT !.pc = "forward_backward",
                            !.ops = @ \o ZeroGradOps(args)]
  /\ UNCHANGED <<args, trainVars, exceptStep>>

StepForwardBackward ==
  /\ tstep.pc = "forward_backward"
  /\ \E losses \in LossesReduced(args.num_microbatches) :
       tstep' = [tstep EXCEPT !.pc = "reduce",
                              !.ops = @ \o ForwardBackwardOps(args),
                              !.losses_reduced = losses]
  /\ UNCHANGED <<args, trainVars, exceptStep>>

StepReduceGrads ==
  /\ tstep.pc = "reduce"
  /\ tstep' = [tstep EXCEPT !.pc = "optimizer",
                            !.ops = @ \o ReduceOps(args)]
  /\ UNCHANGED <<args, trainVars, exceptStep>>

\* update_successful, grad_norm, num_zeros_in_grad = optimizer.step(...)
StepOptimizer ==
  /\ tstep.pc = "optimizer"
  /\ \E ok \in BOOLEAN, norm \in OptionalNumbers, zeros \in OptionalNumbers :
       tstep' = [tstep EXCEPT !.pc = "gather",
                              !.ops = Append(@, "optimizer.step"),
                              !.update_successful = ok,
                              !.grad_norm = norm,
                              !.num_zeros_in_grad = zeros]
  /\ UNCHANGED <<args, trainVars, exceptStep>>

StepGather ==
  /\ tstep.pc = "gather"
  /\ tstep' = [tstep EXCEPT
                 !.pc = "schedule",
                 !.ops = @ \o GatherOps(args, tstep.update_successful)]
  /\ UNCHANGED <<args, trainVars, exceptStep>>

\* the learning-rate update, skipped_iter and the return
StepSchedule ==
  /\ tstep.pc = "schedule"
  /\ tstep' = [tstep EXCEPT
                 !.pc = "returned",
                 !.ops = @ \o ScheduleOps(args, tstep.update_successful),
                 !.increments =
                   IF tstep.update_successful
                     THEN Append(@, StepIncrement(args)) ELSE @,
                 !.skipped_iter = SkippedIter(tstep.update_successful),
                 !.returned =
                   [loss_reduced |->
                      LossReduced(tstep.is_pipeline_last_stage,
                                  tstep.losses_reduced),
                    skipped_iter |-> SkippedIter(tstep.update_successful),
                    grad_norm |-> tstep.grad_norm,
                    num_zeros_in_grad |-> tstep.num_zeros_in_grad]]
  /\ UNCHANGED <<args, trainVars, exceptStep>>

InitStep ==
  /\ args \in StepArgs
  /\ TrainIdle
  /\ UnitIdle

NextStep ==
  \/ StepCall
  \/ StepZeroGrad
  \/ StepForwardBackward
  \/ StepReduceGrads
  \/ StepOptimizer
  \/ StepGather
  \/ StepSchedule

SpecStep == InitStep /\ [][NextStep]_vars

\* ---------------------------------------------------- update_train_iters
\* sample-based or iteration-based training: train_iters = 0 stands for
\* None; batch sizes are multiples of micro_batch_size * data_parallel_size
IterArgs ==
  {a \in [train_iters : {0, 3},
          train_samples : 0 .. MaxSamples,
          micro_batch_size : {1},
          global_batch_size : {2 * NRanks, 3 * NRanks},
          rampup_batch_size : {<<>>, <<NRanks, NRanks, 4 * NRanks>>}] :
     a.train_iters # 0 \/ a.train_samples > 0}

\* the samples consumed by the first n passes of train's loop from
\* args.consumed_train_samples = 0: update_num_microbatches, train_step,
\* consumed_train_samples += ...
RECURSIVE LiveConsumed(_, _)
LiveConsumed(a, n) ==
  IF n <= 0 THEN 0
  ELSE LET before == LiveConsumed(a, n - 1)
       IN ConsumedAfterStep(a, before, get_num_microbatches(a, before))

\* variant: the ramp is stepped with the final global batch size
SimulatedBatch_Final(a, consumed) == a.global_batch_size

\* update_num_microbatches(consumed_samples, consistency_check=False),
\* then get_current_global_batch_size()
SimulatedBatch(a, consumed) == get_current_global_batch_size(a, consumed)

\* (args.train_samples - consumed_samples) // args.global_batch_size
ConstantPhaseIters(a, consumed) ==
  (a.train_samples - consumed) \div a.global_batch_size

\* update_train_iters up to the rampup loop: return if args.train_iters
\* is set; constant batch size; or enter the rampup phase
UpdateTrainIters ==
  /\ uti.pc = "idle"
  /\ IF args.train_iters # 0
       THEN uti' = [uti EXCEPT !.pc = "returned",
                               !.train_iters = args.train_iters]
       ELSE IF args.rampup_batch_size = <<>>
         THEN uti' = [uti EXCEPT !.pc = "returned",
                                 !.train_iters = ConstantPhaseIters(args, 0)]
         ELSE uti' = [uti EXCEPT !.pc = "rampup"]
  /\ UNCHANGED <<args, trainVars, exceptIters>>

\* one pass of `while consumed_samples <= int(args.rampup_batch_size[2])`
RampupPhase ==
  /\ uti.pc = "rampup"
  /\ uti.consumed_samples <= args.rampup_batch_size[3]
  /\ LET batch == SimulatedBatch(args, uti.consumed_samples) IN
       uti' = [uti EXCEPT
                 !.consumed_samples = @ + batch,
                 !.iterations = @ + 1,
                 !.batches = Append(@, batch),
                 !.microbatches =
                   Append(@, batch \div
                               (args.micro_batch_size * data_parallel_size))]
  /\ UNCHANGED <<args, trainVars, exceptIters>>

\* after the loop: the reset, the constant phase, args.train_iters
ConstantPhase ==
  /\ uti.pc = "rampup"
  /\ ~(uti.consumed_samples <= args.rampup_batch_size[3])
  /\ uti' = [uti EXCEPT
               !.pc = "returned",
               !.iterations =
                 @ + ConstantPhaseIters(args, uti.consumed_samples),
               !.train_iters =
                 uti.iterations
                   + ConstantPhaseIters(args, uti.consumed_samples)]
  /\ UNCHANGED <<args, trainVars, exceptIters>>

InitIters ==
  /\ args \in IterArgs
  /\ TrainIdle
  /\ UnitIdle

NextIters ==
  \/ UpdateTrainIters
  \/ RampupPhase
  \/ ConstantPhase

SpecIters == InitIters /\ [][NextIters]_vars

\* ------------------------------------------ micro-batch plan of a step
\* configurations of the calculator, exact or not; a ramp starts at or
\* below the final global batch size
CalcArgs ==
  {a \in [micro_batch_size : {1, 4},
          global_batch_size : 1 .. MaxBatch,
          rampup_batch_size : {<<>>, <<8, 8, 16>>}] :
     a.rampup_batch_size = <<>>
       \/ a.global_batch_size >= a.rampup_batch_size[1]}

\* the global batch sizes a schedule steps through
ScheduleBatches(a) ==
  IF a.rampup_batch_size = <<>> THEN {a.global_batch_size}
  ELSE {get_current_global_batch_size(a, consumed) :
          consumed \in 0 .. a.rampup_batch_size[3] + 1}

\* the number of micro-batches is integral for every batch size of the
\* schedule
ExactPlan(a) ==
  \A b \in ScheduleBatches(a) :
    b % (a.micro_batch_size * data_parallel_size) = 0

\* the calculator is built when the arguments are set up: ConfigError
\* unless the plan is exact
BuildCalculator ==
  /\ calc.pc = "idle"
  /\ calc' = [calc EXCEPT
                !.pc = IF ExactPlan(args) THEN "built" ELSE "ConfigError",
                !.current_global_batch_size =
                  IF ExactPlan(args)
                    THEN get_current_global_batch_size(args, 0) ELSE 0,
                !.num_microbatches =
                  IF ExactPlan(args) THEN get_num_microbatches(args, 0) ELSE 0]
  /\ UNCHANGED <<args, trainVars, exceptCalc>>

\* one pass of train's loop as the calculator sees it:
\* update_num_microbatches(args.consumed_train_samples), train_step,
\* args.consumed_train_samples += ...
PlanStep ==
  /\ calc.pc = "built"
  /\ calc.steps < MaxCalcSteps
  /\ calc' = [calc EXCEPT
                !.steps = @ + 1,
                !.before = calc.consumed,
                !.current_global_batch_size =
                  get_current_global_batch_size(args, calc.consumed),
                !.num_microbatches =
                  get_num_microbatches(args, calc.consumed),
                !.consumed =
                  ConsumedAfterStep(args, calc.consumed,
                                    get_num_microbatches(args, calc.consumed))]
  /\ UNCHANGED <<args, trainVars, exceptCalc>>

InitCalc ==
  /\ args \in CalcArgs
  /\ TrainIdle
  /\ UnitIdle

NextCalc ==
  \/ BuildCalculator
  \/ PlanStep

SpecCalc == InitCalc /\ [][NextCalc]_vars

\* ------------------------------------------------ _initialize_distributed
\* world sizes that the model-parallel sizes divide; device_count is
\* torch.cuda.device_count() of every node
TopoArgs ==
  {a \in [world_size : 1 .. MaxWorld,
          tensor_model_parallel_size : 1 .. 2,
          pipeline_model_parallel_size : 1 .. 3,
          device_count : 0 .. 1] :
     a.world_size
       % (a.tensor_model_parallel_size * a.pipeline_model_parallel_size) = 0}

\* variant: the two sizes are passed in the other order
ModelParallelSizes_Swapped(a) ==
  [tensor |-> a.pipeline_model_parallel_size,
   pipeline |-> a.tensor_model_parallel_size]

\* mpu.initialize_model_parallel(args.tensor_model_parallel_size,
\*                               args.pipeline_model_parallel_size, ...)
ModelParallelSizes(a) ==
  [tensor |-> a.tensor_model_parallel_size,
   pipeline |-> a.pipeline_model_parallel_size]

\* the groups of rank r in a world of w processes: tensor-parallel groups
\* are runs of consecutive ranks, pipeline stages are consecutive blocks
\* of w / pipeline size ranks, and a data-parallel group holds the ranks
\* of one stage with the same place in their tensor-parallel group
TensorGroup(w, sizes, r) ==
  {q \in 0 .. w - 1 : q \div sizes.tensor = r \div sizes.tensor}

PipelineGroup(w, sizes, r) ==
  {q \in 0 .. w - 1 :
     q % (w \div sizes.pipeline) = r % (w \div sizes.pipeline)}

DataGroup(w, sizes, r) ==
  {q \in 0 .. w - 1 :
     /\ q \div (w \div sizes.pipeline) = r \div (w \div sizes.pipeline)
     /\ q % sizes.tensor = r % sizes.tensor}

\* _initialize_distributed on rank r, "Set the tensor model-parallel,
\* pipeline model-parallel, and data-parallel communicators": with a
\* device, mpu.initialize_model_parallel unless it has been done
InitializeDistributed(r) ==
  /\ r < args.world_size
  /\ ~topo[r].initialized
  /\ args.device_count > 0
  /\ topo' =
       [topo EXCEPT ![r] =
          [initialized |-> TRUE,
           tensor |-> TensorGroup(args.world_size, ModelParallelSizes(args), r),
           pipeline |->
             PipelineGroup(args.world_size, ModelParallelSizes(args), r),
           data |-> DataGroup(args.world_size, ModelParallelSizes(args), r)]]
  /\ UNCHANGED <<args, trainVars, exceptTopo>>

\* a second call finds mpu.model_parallel_is_initialized() and a call
\* without a device skips the block: the topology is left as it is
InitializeDistributedAgain(r) ==
  /\ r < args.world_size
  /\ topo[r].initialized \/ args.device_count = 0
  /\ UNCHANGED vars

InitTopo ==
  /\ args \in TopoArgs
  /\ TrainIdle
  /\ UnitIdle

NextTopo ==
  \E r \in World :
    \/ InitializeDistributed(r)
    \/ InitializeDistributedAgain(r)

SpecTopo == InitTopo /\ [][NextTopo]_vars

\* --------------------------------------------------------------- get_model
\* virtual_pipeline_model_parallel_size = 0 stands for None
\* pipeline_model_parallel_rank is mpu.get_pipeline_model_parallel_rank()
\* of the process
ModelArgs ==
  {a \in [pipeline_model_parallel_size : 1 .. MaxStages,
          pipeline_model_parallel_rank : 0 .. MaxStages - 1,
          pipeline_model_parallel_split_rank :
            {NoneSeed} \cup {IntSeed(n) : n \in 1 .. MaxStages - 1},
          virtual_pipeline_model_parallel_size : 0 .. MaxVirtual,
          model_type : {"encoder_or_decoder", "encoder_and_decoder"},
          DDP_impl : {"torch", "local"}] :
     /\ a.pipeline_model_parallel_rank < a.pipeline_model_parallel_size
     /\ a.pipeline_model_parallel_split_rank.none
        \/ a.pipeline_model_parallel_split_rank.v
             < a.pipeline_model_parallel_size}

\* the values the virtual-pipeline rank may have when get_model is called
VirtualRanks(a) ==
  IF a.virtual_pipeline_model_parallel_size = 0 THEN {NoneSeed}
  ELSE {IntSeed(v) : v \in 0 .. a.virtual_pipeline_model_parallel_size - 1}

\* if mpu.get_pipeline_model_parallel_world_size() > 1 and
\*    args.virtual_pipeline_model_parallel_size is not None
Interleaved(a) ==
  /\ a.pipeline_model_parallel_size > 1
  /\ a.virtual_pipeline_model_parallel_size # 0

\* variant: every partition is built as virtual stage 0
StageRank_First(i) == IntSeed(0)

\* mpu.set_virtual_pipeline_model_parallel_rank(i)
StageRank(i) == IntSeed(i)

\* mpu.is_pipeline_first_stage(): with virtual stages, only virtual
\* stage 0 of pipeline rank 0
is_pipeline_first_stage(a, vrank) ==
  IF a.virtual_pipeline_model_parallel_size # 0 /\ vrank # IntSeed(0)
    THEN FALSE
    ELSE a.pipeline_model_parallel_rank = 0

\* mpu.is_pipeline_last_stage(): with virtual stages, only the last virtual
\* stage of the last pipeline rank
is_pipeline_last_stage(a, vrank) ==
  IF /\ a.virtual_pipeline_model_parallel_size # 0
     /\ vrank # IntSeed(a.virtual_pipeline_model_parallel_size - 1)
    THEN FALSE
    ELSE a.pipeline_model_parallel_rank = a.pipeline_model_parallel_size - 1

\* mpu.is_pipeline_stage_before_split()
is_pipeline_stage_before_split(a) ==
  \/ a.pipeline_model_parallel_size = 1
  \/ a.pipeline_model_parallel_split_rank.none
  \/ a.pipeline_model_parallel_rank < a.pipeline_model_parallel_split_rank.v

\* mpu.is_pipeline_stage_after_split()
is_pipeline_stage_after_split(a) ==
  \/ a.pipeline_model_parallel_size = 1
  \/ a.pipeline_model_parallel_split_rank.none
  \/ a.pipeline_model_parallel_rank >= a.pipeline_model_parallel_split_rank.v

\* pre_process = rank == 0 or rank == split_rank
EncDecPreProcess(rank, split_rank) == rank = 0 \/ rank = split_rank

\* variant: only the last pipeline rank post-processes
EncDecPostProcess_LastOnly(rank, split_rank, world_size) ==
  rank = world_size - 1

\* post_process = (rank == (split_rank - 1)) or (rank == (world_size - 1))
EncDecPostProcess(rank, split_rank, world_size) ==
  rank = split_rank - 1 \/ rank = world_size - 1

\* the else branch of get_model: the arguments of the one call of
\* model_provider_func, or the assert on the split rank
SingleModel(a, vrank) ==
  IF a.model_type = "encoder_and_decoder"
    THEN IF a.pipeline_model_parallel_size > 1
           THEN [virtual_rank |-> vrank,
                 pre_process |->
                   EncDecPreProcess(a.pipeline_model_parallel_rank,
                                    a.pipeline_model_parallel_split_rank.v),
                 post_process |->
                   EncDecPostProcess(a.pipeline_model_parallel_rank,
                                     a.pipeline_model_parallel_split_rank.v,
                                     a.pipeline_model_parallel_size),
                 add_encoder |-> is_pipeline_stage_before_split(a),
                 add_decoder |-> is_pipeline_stage_after_split(a)]
           ELSE [virtual_rank |-> vrank,
                 pre_process |-> is_pipeline_first_stage(a, vrank),
                 post_process |-> is_pipeline_last_stage(a, vrank),
                 add_encoder |-> TRUE,
                 add_decoder |-> TRUE]
    ELSE [virtual_rank |-> vrank,
          pre_process |-> is_pipeline_first_stage(a, vrank),
          post_process |-> is_pipeline_last_stage(a, vrank)]

\* assert args.pipeline_model_parallel_split_rank is not None
SplitRankMissing(a) ==
  /\ a.model_type = "encoder_and_decoder"
  /\ a.pipeline_model_parallel_size > 1
  /\ a.pipeline_model_parallel_split_rank.none

\* get_model up to the loop over the virtual stages: the assert on the
\* model type, or the one model of the other branch
GetModel ==
  /\ gm.pc = "idle"
  /\ IF Interleaved(args)
       THEN IF args.model_type = "encoder_and_decoder"
              THEN gm' = [gm EXCEPT !.pc = "AssertionError"]
              ELSE gm' = [gm EXCEPT !.pc = "build", !.i = 0]
       ELSE IF SplitRankMissing(args)
              THEN gm' = [gm EXCEPT !.pc = "AssertionError"]
              ELSE gm' = [gm EXCEPT
                            !.pc = "wrap",
                            !.model = <<SingleModel(args, gm.virtual_rank)>>]
  /\ UNCHANGED <<args, trainVars, exceptModel>>

\* one pass of `for i in range(args.virtual_pipeline_model_parallel_size)`
BuildPartition ==
  /\ gm.pc = "build"
  /\ gm.i < args.virtual_pipeline_model_parallel_size
  /\ gm' = [gm EXCEPT !.virtual_rank = StageRank(gm.i),
                      !.model =
                        Append(@,
                          [virtual_rank |-> StageRank(gm.i),
                           pre_process |->
                             is_pipeline_first_stage(args, StageRank(gm.i)),
                           post_process |->
                             is_pipeline_last_stage(args, StageRank(gm.i))]),
                      !.i = @ + 1]
  /\ UNCHANGED <<args, trainVars, exceptModel>>

\* the loop is left
BuildDone ==
  /\ gm.pc = "build"
  /\ ~(gm.i < args.virtual_pipeline_model_parallel_size)
  /\ gm' = [gm EXCEPT !.pc = "wrap"]
  /\ UNCHANGED <<args, trainVars, exceptModel>>

\* the rest of get_model: attributes, GPU allocation, fp16, DDP, return
GetModelReturn ==
  /\ gm.pc = "wrap"
  /\ gm' = [gm EXCEPT !.pc = "returned"]
  /\ UNCHANGED <<args, trainVars, exceptModel>>

InitModel ==
  /\ args \in ModelArgs
  /\ TrainIdle
  /\ InitializeIdle
  /\ BatchIdle
  /\ ItersBuiltIdle
  /\ CompatIdle
  /\ ValidIdle
  /\ EvalIdle
  /\ PairIdle
  /\ CompileIdle
  /\ LogIdle /\ SeedIdle /\ StepIdle /\ ItersIdle /\ CalcIdle /\ TopoIdle
  /\ WallIdle /\ SinkIdle /\ SaveIdle
  /\ \E rank \in VirtualRanks(args) : gm = NoModel(rank)

NextModel ==
  \/ GetModel
  \/ BuildPartition
  \/ BuildDone
  \/ GetModelReturn

SpecModel == InitModel /\ [][NextModel]_vars

\* ------------------------------------ start time and wall-time budget
WallArgs == [exit_duration_in_mins : 1 .. MaxTime]

\* pretrain: _TRAIN_START_TIME = all_reduce(start_time_tensor, MIN).item()
AdjustStartTime ==
  /\ \A r \in Ranks : wall[r].pc = "start"
  /\ wall' = [r \in Ranks |->
                [wall[r] EXCEPT
                   !.pc = "adjusted",
                   !.start = AllReduceStart([q \in Ranks |-> wall[q].start])]]
  /\ UNCHANGED <<args, trainVars, exceptWall>>

\* train: train_time = (time.time() - _TRAIN_START_TIME) / 60.0;
\* done_cuda = [train_time > args.exit_duration_in_mins]
ReadTrainTime(r) ==
  /\ wall[r].pc = "adjusted"
  /\ \E t \in wall[r].measured .. MaxTime + 1 :
       wall' = [wall EXCEPT
                  ![r].pc = "polled",
                  ![r].time = t,
                  ![r].done_cuda =
                    IF OverBudget(args, t, wall[r].start) THEN 1 ELSE 0]
  /\ UNCHANGED <<args, trainVars, exceptWall>>

InitWall ==
  /\ args \in WallArgs
  /\ TrainIdle
  /\ InitializeIdle
  /\ BatchIdle
  /\ ItersBuiltIdle
  /\ CompatIdle
  /\ ValidIdle
  /\ EvalIdle
  /\ PairIdle
  /\ CompileIdle
  /\ LogIdle /\ SeedIdle /\ StepIdle /\ ItersIdle /\ CalcIdle /\ TopoIdle
  /\ ModelIdle /\ SinkIdle /\ SaveIdle
  /\ \E measured \in [Ranks -> 0 .. MaxTime] :
       wall = [r \in Ranks |-> NoWall(measured[r])]

NextWall ==
  \/ AdjustStartTime
  \/ \E r \in Ranks : ReadTrainTime(r)

SpecWall == InitWall /\ [][NextWall]_vars

\* ---------------------------------------------- tensorboard and wandb
\* `wandb` is whether `import wandb` succeeded when training.py was
\* loaded, `writer` whether get_tensorboard_writer() returns a writer
SinkArgs ==
  [wandb : BOOLEAN,
   writer : BOOLEAN,
   wandb_project_name : BOOLEAN,
   wandb_entity_name : BOOLEAN,
   is_last_rank : BOOLEAN,
   log_interval : {1, 2},
   tensorboard_log_interval : {1, 2},
   eval_interval : {1, 2}]

\* the outcomes of writer.add_scalar(...): the calls are made outside any
\* try statement
WriterOutcomes(called) == IF called THEN {"", "WriterError"} ELSE {""}

\* the outcomes of wandb.init(...) and wandb.log(...): the name wandb is
\* unbound when the import failed
WandbOutcomes(a, called) ==
  IF ~called THEN {""}
  ELSE IF ~a.wandb THEN {"NameError"}
  ELSE {"", "WandbError"}

\* training_log: the tensorboard values are written
WriterDue(a, it) ==
  a.writer /\ it % a.tensorboard_log_interval = 0 /\ a.is_last_rank

\* training_log: the writer calls under `if iteration % args.log_interval == 0`
WriterTimersDue(a, it) == it % a.log_interval = 0 /\ a.writer

\* training_log: "Weights and biases reporting"
WandbDue(a, it) ==
  it % a.log_interval = 0 /\ a.is_last_rank /\ a.wandb_project_name

\* init_wandb: wandb.init is reached
WandbInitDue(a) ==
  a.is_last_rank /\ a.wandb_entity_name /\ a.wandb_project_name

\* a call that raises ends the function and, with no handler in train or
\* pretrain, the process; the first exception is the one that is raised
Raised(first, second) == IF first # "" THEN first ELSE second

\* train: init_wandb()
InitWandb ==
  /\ sink.pc = "init_wandb"
  /\ \E e \in WandbOutcomes(args, WandbInitDue(args)) :
       sink' = [sink EXCEPT !.error = e,
                            !.pc = IF e = "" THEN "train_step"
                                   ELSE "exception"]
  /\ UNCHANGED <<args, trainVars, exceptSink>>

\* train: while iteration < args.train_iters: train_step; iteration += 1;
\* args.consumed_train_samples += ...
SinkTrainStep ==
  /\ sink.pc = "train_step"
  /\ sink' = IF sink.iteration < MaxLogIters
               THEN [sink EXCEPT !.iteration = @ + 1,
                                 !.consumed_train_samples = @ + 1,
                                 !.pc = "training_log"]
               ELSE [sink EXCEPT !.pc = "done"]
  /\ UNCHANGED <<args, trainVars, exceptSink>>

\* training_log as far as the sinks are concerned
SinkTrainingLog ==
  /\ sink.pc = "training_log"
  /\ \E w \in WriterOutcomes(WriterDue(args, sink.iteration)
                             \/ WriterTimersDue(args, sink.iteration)),
        e \in WandbOutcomes(args, WandbDue(args, sink.iteration)) :
       LET raised == Raised(w, e)
       IN  sink' = [sink EXCEPT
                      !.error = raised,
                      !.logged = IF raised = "" THEN sink.iteration ELSE @,
                      !.pc = IF raised # "" THEN "exception"
                             ELSE IF sink.iteration % args.eval_interval = 0
                                    THEN "evaluate"
                                    ELSE "train_step"]
  /\ UNCHANGED <<args, trainVars, exceptSink>>

\* evaluate_and_print_results as far as the sinks are concerned
SinkEvaluate ==
  /\ sink.pc = "evaluate"
  /\ \E w \in WriterOutcomes(args.writer),
        e \in WandbOutcomes(args,
                            args.is_last_rank /\ args.wandb_project_name) :
       LET raised == Raised(w, e)
       IN  sink' = [sink EXCEPT
                      !.error = raised,
                      !.pc = IF raised # "" THEN "exception"
                             ELSE "train_step"]
  /\ UNCHANGED <<args, trainVars, exceptSink>>

InitSink ==
  /\ args \in SinkArgs
  /\ TrainIdle
  /\ UnitIdle

NextSink ==
  \/ InitWandb
  \/ SinkTrainStep
  \/ SinkTrainingLog
  \/ SinkEvaluate

SpecSink == InitSink /\ [][NextSink]_vars

\* --------------------------- save_checkpoint_and_time, the save failing
SaveArgs ==
  [train_iters : {MaxIters, MaxIters + 1},
   save_interval : 1 .. 3]

\* variant: the barrier is passed by the ranks that are still running
BarrierPassed_Survivors(at) ==
  \A r \in Ranks : sct[r].pc \in {at, "exception"}

\* torch.distributed.barrier(): every rank of the group has entered it
BarrierPassed(at) == \A r \in Ranks : sct[r].pc = at

\* train: one pass of the loop up to `if args.save and args.save_interval
\* and iteration % args.save_interval == 0`
SaveTrainStep(r) ==
  /\ sct[r].pc = "train_step"
  /\ sct' = [sct EXCEPT ![r] =
       IF sct[r].iteration < args.train_iters
         THEN [iteration |-> sct[r].iteration + 1,
               pc |-> IF (sct[r].iteration + 1) % args.save_interval = 0
                        THEN "sct_b1" ELSE "train_step"]
         ELSE [sct[r] EXCEPT !.pc = "done"]]
  /\ UNCHANGED <<args, trainVars, exceptSave>>

\* save_checkpoint_and_time: the barrier before the save
SaveBarrierBefore ==
  /\ BarrierPassed("sct_b1")
  /\ sct' = [r \in Ranks |-> [sct[r] EXCEPT !.pc = "sct_write"]]
  /\ UNCHANGED <<args, trainVars, exceptSave>>

\* save_checkpoint(iteration, ...): returns, or raises; the exception
\* leaves save_checkpoint_and_time, train and pretrain
SaveOrFail(r) ==
  /\ sct[r].pc = "sct_write"
  /\ \E ok \in BOOLEAN :
       sct' = [sct EXCEPT ![r].pc = IF ok THEN "sct_b2" ELSE "exception"]
  /\ UNCHANGED <<args, trainVars, exceptSave>>

\* save_checkpoint_and_time: the barrier after the save
SaveBarrierAfter ==
  /\ BarrierPassed("sct_b2")
  /\ sct' = [r \in Ranks |->
               IF sct[r].pc = "sct_b2"
                 THEN [sct[r] EXCEPT !.pc = "train_step"]
                 ELSE sct[r]]
  /\ UNCHANGED <<args, trainVars, exceptSave>>

InitSave ==
  /\ args \in SaveArgs
  /\ TrainIdle
  /\ UnitIdle

NextSave ==
  \/ \E r \in Ranks : SaveTrainStep(r)
  \/ SaveBarrierBefore
  \/ \E r \in Ranks : SaveOrFail(r)
  \/ SaveBarrierAfter

SpecSave == InitSave /\ [][NextSave]_vars

\* ------------------------------------------------- _compile_dependencies
CompileArgs ==
  [fp16 : BOOLEAN,
   bf16 : BOOLEAN,
   masked_softmax_fusion : BOOLEAN,
   seq_length : {16, 20},
   num_attention_heads : {4, 6},
   tensor_model_parallel_size : {1},
   micro_batch_size : {1}]

\* torch.distributed.get_rank() of the process the model calls r
get_rank(r) == r - 1

\* seq_len > 16 and seq_len <= 8192 and seq_len % 4 == 0 and
\* attn_batch_size % 4 == 0, with attn_batch_size =
\* (num_attention_heads / tensor_model_parallel_size) * micro_batch_size
custom_kernel_constraint(a) ==
  /\ a.seq_length > 16 /\ a.seq_length <= 8192
  /\ a.seq_length % 4 = 0
  /\ (a.num_attention_heads * a.micro_batch_size)
       % (4 * a.tensor_model_parallel_size) = 0

\* the warning about the fused softmax kernel is printed
KernelWarning(a, rank) ==
  /\ ~((a.fp16 \/ a.bf16) /\ custom_kernel_constraint(a)
       /\ a.masked_softmax_fusion)
  /\ rank = 0

\* variant: every rank loads before its first barrier
CompileSteps_LoadFirst(rank) ==
  IF rank = 0
    THEN <<"compile_helper", "check", "load", "barrier", "barrier">>
    ELSE <<"check", "load", "barrier", "barrier">>

\* the statements of _compile_dependencies in the order the process of
\* the given rank runs them
CompileSteps(rank) ==
  IF rank = 0
    THEN <<"compile_helper", "check", "load", "barrier", "barrier">>
    ELSE <<"check", "barrier", "load", "barrier">>

\* the statement the process is at, "return" past the last one
CompileAt(r) ==
  IF cdep[r].i > Len(CompileSteps(get_rank(r))) THEN "return"
  ELSE CompileSteps(get_rank(r))[cdep[r].i]

\* a statement of one process alone: compile_helper(), the constraint
\* check, fused_kernels.load(args)
CompileLocal(r) ==
  /\ CompileAt(r) \in {"compile_helper", "check", "load"}
  /\ cdep' = [cdep EXCEPT
       ![r] = [@ EXCEPT
          !.i = @ + 1,
          !.compiled = @ \/ CompileAt(r) = "compile_helper",
          !.warned = IF CompileAt(r) = "check"
                       THEN KernelWarning(args, get_rank(r)) ELSE @,
          !.loaded = @ \/ CompileAt(r) = "load"]]
  /\ UNCHANGED <<args, trainVars, exceptCompile>>

\* torch.distributed.barrier(): every process has called it
CompileBarrier ==
  /\ \A r \in Ranks : CompileAt(r) = "barrier"
  /\ cdep' = [r \in Ranks |->
                [cdep[r] EXCEPT !.i = @ + 1, !.barriers = @ + 1]]
  /\ UNCHANGED <<args, trainVars, exceptCompile>>

InitCompile ==
  /\ args \in CompileArgs
  /\ TrainIdle
  /\ UnitIdle

NextCompile ==
  \/ \E r \in Ranks : CompileLocal(r)
  \/ CompileBarrier

SpecCompile == InitCompile /\ [][NextCompile]_vars

\* ------------------------------- _set_random_seed on two processes
\* (pipeline rank, data-parallel rank) of a process
Processes == (0 .. 1) \X (0 .. MaxDataParallelRank)

\* both processes run _set_random_seed(args.seed,
\* args.data_parallel_random_init)
SeedPair ==
  /\ pair.pc = "idle"
  /\ pair' =
       IF SeedIsValid(args.seed)
         THEN [pair EXCEPT
                 !.pc = "returned",
                 !.seed_a = RankSeed(args.seed, args.data_parallel_random_init,
                                     pair.a[1], pair.a[2]),
                 !.seed_b = RankSeed(args.seed, args.data_parallel_random_init,
                                     pair.b[1], pair.b[2])]
         ELSE [pair EXCEPT !.pc = InvalidSeedOutcome]
  /\ UNCHANGED <<args, trainVars, exceptPair>>

InitPair ==
  /\ args \in SeedArgs
  /\ TrainIdle
  /\ InitializeIdle
  /\ BatchIdle
  /\ ItersBuiltIdle
  /\ CompatIdle
  /\ ValidIdle
  /\ EvalIdle
  /\ LogIdle /\ SeedIdle /\ StepIdle /\ ItersIdle /\ CalcIdle /\ TopoIdle
  /\ ModelIdle /\ WallIdle /\ SinkIdle /\ SaveIdle /\ CompileIdle
  /\ \E a \in Processes, b \in Processes : pair = [NoPair EXCEPT !.a = a, !.b = b]

NextPair == SeedPair

SpecPair == InitPair /\ [][NextPair]_vars

\* --------------------------------------------------------------- evaluate
\* num_microbatches is get_num_microbatches(), process_non_loss_data_func
\* whether the caller passed one, is_last_rank the value of is_last_rank()
EvalArgs ==
  [eval_iters : 1 .. MaxEvalIters,
   micro_batch_size : {1, 2},
   num_microbatches : {1, 2},
   process_non_loss_data_func : BOOLEAN,
   is_last_rank : BOOLEAN]

\* variant: the counter advances by one micro-batch per replica
ConsumedValidAfterIteration_OneMicrobatch(a, cvs) ==
  cvs + data_parallel_size * a.micro_batch_size

\* args.consumed_valid_samples += mpu.get_data_parallel_world_size()
\*   * args.micro_batch_size * get_num_microbatches()
ConsumedValidAfterIteration(a, cvs) ==
  cvs + data_parallel_size * a.micro_batch_size * a.num_microbatches

\* evaluate up to its loop: model_module.eval() for every partition
EvalEnter ==
  /\ ev.pc = "idle"
  /\ ev' = [ev EXCEPT !.pc = "loop", !.iteration = 0,
                      !.training = [m \in DOMAIN @ |-> FALSE]]
  /\ UNCHANGED <<args, trainVars, exceptEval>>

\* one pass of `while iteration < args.eval_iters`: a forward-only pass
\* and the counter
EvalIteration ==
  /\ ev.pc = "loop"
  /\ ev.iteration < args.eval_iters
  /\ ev' = [ev EXCEPT
              !.iteration = @ + 1,
              !.forward_only = @ + 1,
              !.consumed_valid_samples = ConsumedValidAfterIteration(args, @)]
  /\ UNCHANGED <<args, trainVars, exceptEval>>

\* after the loop: the forward-only pass that collects the non-loss data,
\* if process_non_loss_data_func is not None and is_last_rank()
EvalCollect ==
  /\ ev.pc = "loop"
  /\ ~(ev.iteration < args.eval_iters)
  /\ ev' = IF args.process_non_loss_data_func /\ args.is_last_rank
             THEN [ev EXCEPT !.pc = "train_mode", !.forward_only = @ + 1,
                             !.collected = TRUE]
             ELSE [ev EXCEPT !.pc = "train_mode"]
  /\ UNCHANGED <<args, trainVars, exceptEval>>

\* model_module.train() for every partition, the averages, return
EvalReturn ==
  /\ ev.pc = "train_mode"
  /\ ev' = [ev EXCEPT !.pc = "returned",
                      !.training = [m \in DOMAIN @ |-> TRUE]]
  /\ UNCHANGED <<args, trainVars, exceptEval>>

InitEval ==
  /\ args \in EvalArgs
  /\ TrainIdle
  /\ InitializeIdle
  /\ BatchIdle
  /\ ItersBuiltIdle
  /\ CompatIdle
  /\ ValidIdle
  /\ LogIdle /\ SeedIdle /\ StepIdle /\ ItersIdle /\ CalcIdle /\ TopoIdle
  /\ ModelIdle /\ WallIdle /\ SinkIdle /\ SaveIdle /\ CompileIdle /\ PairIdle
  /\ \E cvs \in {0, 8}, it \in 1 .. 2 :
       ev = NoEval(cvs, it * data_parallel_size, it)

NextEval ==
  \/ EvalEnter
  \/ EvalIteration
  \/ EvalCollect
  \/ EvalReturn

SpecEval == InitEval /\ [][NextEval]_vars

\* --------------------------------- the validation loaders across a resume
\* iteration-based training (train_samples is None) with a constant batch
\* size and args.save set; num_valid_ds is len(valid_ds)
ValidArgs ==
  [train_iters : {2, 3},
   eval_interval : {1, 2},
   eval_iters : {1},
   global_batch_size : {2 * NRanks},
   save_interval : {0, 1, 2},
   adlr_autoresume : BOOLEAN,
   num_valid_ds : 1 .. MaxValidSets]

\* build_train_valid_test_data_iterators, backward compatibility of the
\* validation counter (train_samples is None)
CompatValid(a, it, cvs) ==
  IF it > 0 /\ cvs = 0
    THEN (it \div a.eval_interval) * a.eval_iters * a.global_batch_size
    ELSE cvs

\* build_pretraining_data_loader(d, args.consumed_valid_samples // len(valid_ds))
ValidLoaderStart(a, cvs) == cvs \div a.num_valid_ds

\* evaluate_and_print_results for every validation iterator: each dataset
\* gives eval_iters global batches, each counted in consumed_valid_samples
EvaluateAll(a, v) ==
  [v EXCEPT
     !.consumed_valid_samples =
       @ + a.num_valid_ds * a.eval_iters * a.global_batch_size,
     !.drawn = [i \in DOMAIN @ |-> @[i] + a.eval_iters * a.global_batch_size]]

\* save_checkpoint: the iteration and the counter; drawn is kept with it
\* for the comparison
ValidCkpt(v) ==
  [iteration |-> v.iteration,
   consumed_valid_samples |-> v.consumed_valid_samples,
   drawn |-> v.drawn]

\* build_train_valid_test_data_iterators: the counter and the loaders
ValidBuild ==
  /\ vd.pc = "build"
  /\ LET cvs == CompatValid(args, vd.iteration, vd.consumed_valid_samples)
     IN  vd' = [vd EXCEPT
                  !.consumed_valid_samples = cvs,
                  !.start = [i \in DOMAIN @ |-> ValidLoaderStart(args, cvs)],
                  !.pc = "loop_head"]
  /\ UNCHANGED <<args, trainVars, exceptValid>>

\* train: while iteration < args.train_iters: train_step, iteration += 1
ValidStep ==
  /\ vd.pc = "loop_head"
  /\ vd' = IF vd.iteration < args.train_iters
             THEN [vd EXCEPT !.iteration = @ + 1, !.pc = "autoresume"]
             ELSE [vd EXCEPT !.pc = "final_eval"]
  /\ UNCHANGED <<args, trainVars, exceptValid>>

\* train, "Autoresume": check_adlr_autoresume_termination saves and exits
\* when termination is requested
ValidAutoresume ==
  /\ vd.pc = "autoresume"
  /\ \E requested \in BOOLEAN :
       vd' = IF args.adlr_autoresume /\ requested
               THEN [vd EXCEPT !.ckpt = ValidCkpt(vd), !.pc = "exited"]
               ELSE [vd EXCEPT !.pc = "eval"]
  /\ UNCHANGED <<args, trainVars, exceptValid>>

\* train, "Evaluation" (args.do_valid holds: there is a validation set)
ValidEvaluate ==
  /\ vd.pc = "eval"
  /\ vd' = IF args.eval_interval # 0 /\ vd.iteration % args.eval_interval = 0
             THEN [EvaluateAll(args, vd) EXCEPT !.pc = "save"]
             ELSE [vd EXCEPT !.pc = "save"]
  /\ UNCHANGED <<args, trainVars, exceptValid>>

\* train, "Checkpointing": the save-interval branch
ValidSave ==
  /\ vd.pc = "save"
  /\ vd' = IF args.save_interval # 0 /\ vd.iteration % args.save_interval = 0
             THEN [vd EXCEPT !.ckpt = ValidCkpt(vd), !.pc = "loop_head"]
             ELSE [vd EXCEPT !.pc = "loop_head"]
  /\ UNCHANGED <<args, trainVars, exceptValid>>

\* pretrain: the final evaluation and the final save
ValidFinal ==
  /\ vd.pc = "final_eval"
  /\ LET v == EvaluateAll(args, vd)
     IN  vd' = IF v.iteration # 0
                 THEN [v EXCEPT !.ckpt = ValidCkpt(v), !.pc = "done"]
                 ELSE [v EXCEPT !.pc = "done"]
  /\ UNCHANGED <<args, trainVars, exceptValid>>

\* the job is started again and load_checkpoint restores the iteration and
\* the counter of the latest checkpoint
ValidResume ==
  /\ vd.pc \in {"exited", "done"}
  /\ vd.runs <= MaxRestarts
  /\ vd.ckpt # NoValidCkpt
  /\ vd' = [vd EXCEPT
              !.pc = "build",
              !.runs = @ + 1,
              !.iteration = vd.ckpt.iteration,
              !.consumed_valid_samples = vd.ckpt.consumed_valid_samples,
              !.drawn = vd.ckpt.drawn,
              !.loaded = vd.ckpt]
  /\ UNCHANGED <<args, trainVars, exceptValid>>

InitValid ==
  /\ args \in ValidArgs
  /\ TrainIdle
  /\ InitializeIdle
  /\ BatchIdle
  /\ ItersBuiltIdle
  /\ CompatIdle
  /\ LogIdle /\ SeedIdle /\ StepIdle /\ ItersIdle /\ CalcIdle /\ TopoIdle
  /\ ModelIdle /\ WallIdle /\ SinkIdle /\ SaveIdle /\ CompileIdle /\ PairIdle
  /\ EvalIdle
  /\ vd = NoValid(args.num_valid_ds)

NextValid ==
  \/ ValidBuild
  \/ ValidStep
  \/ ValidAutoresume
  \/ ValidEvaluate
  \/ ValidSave
  \/ ValidFinal
  \/ ValidResume

SpecValid == InitValid /\ [][NextValid]_vars

\* --------------------------- backward compatibility of the sample counters
\* train_samples is None for iteration-based training
CompatArgs ==
  [train_samples : {NoneSeed, IntSeed(MaxSamples)},
   global_batch_size : {2, 4, 8},
   eval_interval : {2},
   eval_iters : {1}]

\* variant: the counter is derived without the assertion
CompatAssertionFails_Never(a, it, cts) == FALSE

\* assert args.train_samples is None, reached when iteration > 0 and
\* consumed_train_samples == 0
CompatAssertionFails(a, it, cts) ==
  it > 0 /\ cts = 0 /\ a.train_samples # NoneSeed

\* the validation counter is derived only when train_samples is None
CompatValidGuarded(a, it, cvs) ==
  IF a.train_samples = NoneSeed THEN CompatValidSamples(a, it, cvs) ELSE cvs

\* build_train_valid_test_data_iterators, "Backward compatibility, assume
\* fixed batch size"
CompatBuild ==
  /\ bc.pc = "build"
  /\ bc' = IF CompatAssertionFails(args, bc.iteration,
                                   bc.consumed_train_samples)
             THEN [bc EXCEPT !.raised = "AssertionError", !.pc = "raised"]
             ELSE [bc EXCEPT
                     !.consumed_train_samples =
                       CompatTrainSamples(args, bc.iteration, @),
                     !.consumed_valid_samples =
                       CompatValidGuarded(args, bc.iteration, @),
                     !.pc = "loaders"]
  /\ UNCHANGED <<args, trainVars, exceptCompat>>

InitCompat ==
  /\ args \in CompatArgs
  /\ TrainIdle
  /\ InitializeIdle
  /\ BatchIdle
  /\ ItersBuiltIdle
  /\ LogIdle /\ SeedIdle /\ StepIdle /\ ItersIdle /\ CalcIdle /\ TopoIdle
  /\ ModelIdle /\ WallIdle /\ SinkIdle /\ SaveIdle /\ CompileIdle /\ PairIdle
  /\ EvalIdle /\ ValidIdle
  /\ \E it \in 0 .. MaxIters, cts \in {0, 4, 8}, cvs \in {0, 4} :
       bc = NoCompat(it, cts, cvs)

NextCompat == CompatBuild

SpecCompat == InitCompat /\ [][NextCompat]_vars

\* ------------------------------------------ the validation and test iterators
\* split tells the validation list from the test list: both are built by
\* the same expression
DataIterArgs ==
  [dataloader_type : {"single", "cyclic"},
   num_loaders : 1 .. MaxValidSets,
   split : {"valid", "test"}]

\* what an iterator yields: a batch of a loader, or a loader object itself
Batch(l, k) == [kind |-> "batch", loader |-> l, index |-> k]
Loader(l) == [kind |-> "loader", loader |-> l, index |-> 0]

\* iterating a data loader gives its batches in order
LoaderItems(l) == [k \in 1 .. LoaderLen |-> Batch(l, k)]

\* valid_dataloaders (test_dataloaders): the list of loader objects
LoaderList(a) == [l \in 1 .. a.num_loaders |-> Loader(l)]

\* cyclic_iter(iter): "while True: for x in iter: yield x"; the items an
\* iterator over it yields are those of the iterable, again and again
CyclicIter(iterable) == [cyclic |-> TRUE, items |-> iterable]

\* iter(vdl)
SingleIter(iterable) == [cyclic |-> FALSE, items |-> iterable]

\* [iter(vdl) if dl_type == 'single' else iter(cyclic_iter(valid_dataloaders))
\*  for vdl in valid_dataloaders]
EvalIterators(a) ==
  [l \in 1 .. a.num_loaders |->
     IF a.dataloader_type = "single"
       THEN SingleIter(LoaderItems(l))
       ELSE CyclicIter(LoaderList(a))]

\* iter(train_dataloader) if dl_type == 'single'
\* else iter(cyclic_iter(train_dataloader)); the training loader is loader 0
TrainIterator(a) ==
  IF a.dataloader_type = "single"
    THEN SingleIter(LoaderItems(0))
    ELSE CyclicIter(LoaderItems(0))

\* next(iterator) after k items were drawn: the item, or StopIteration
IterHasNext(it, k) == it.cyclic \/ k < Len(it.items)

IterItem(it, k) == it.items[(k % Len(it.items)) + 1]

DataIterBuild ==
  /\ di.pc = "build"
  /\ di' = [di EXCEPT
              !.iterators = [i \in 0 .. args.num_loaders |->
                               IF i = 0 THEN TrainIterator(args)
                                        ELSE EvalIterators(args)[i]],
              !.pc = "built"]
  /\ UNCHANGED <<args, trainVars, exceptItersBuilt>>

\* next(train_data_iterator), next(valid_data_iterators[i - 1])
DataIterNext ==
  /\ di.pc = "built"
  /\ \E i \in DOMAIN di.yielded :
       /\ ~di.stopped[i]
       /\ Len(di.yielded[i]) < MaxDraws
       /\ LET it == di.iterators[i]
              k == Len(di.yielded[i])
          IN  di' = IF IterHasNext(it, k)
                      THEN [di EXCEPT
                              !.yielded[i] = Append(@, IterItem(it, k))]
                      ELSE [di EXCEPT !.stopped[i] = TRUE]
  /\ UNCHANGED <<args, trainVars, exceptItersBuilt>>

InitDataIter ==
  /\ args \in DataIterArgs
  /\ TrainIdle
  /\ InitializeIdle
  /\ BatchIdle
  /\ LogIdle /\ SeedIdle /\ StepIdle /\ ItersIdle /\ CalcIdle /\ TopoIdle
  /\ ModelIdle /\ WallIdle /\ SinkIdle /\ SaveIdle /\ CompileIdle /\ PairIdle
  /\ EvalIdle /\ ValidIdle /\ CompatIdle
  /\ di = NoEvalIters(args.num_loaders)

NextDataIter ==
  \/ DataIterBuild
  \/ DataIterNext

SpecDataIter == InitDataIter /\ [][NextDataIter]_vars

\* ------------------------------------------- _tokenize_prompts_and_batch
\* a prompt is a text: a sequence of words of a two-word vocabulary
Words == {"a", "<|endoftext|>"}

Texts == UNION {[1 .. n -> Words] : n \in 0 .. MaxPromptLen}

BatchArgs ==
  [prompts : UNION {[1 .. n -> Texts] : n \in 0 .. MaxPrompts},
   tokens_to_generate : 0 .. MaxGenerate,
   add_BOS : BOOLEAN]

\* tokenizer.eod
eod == 0

\* tokenizer.tokenize(prompt): one token id for each word
TokenId(word) == IF word = "<|endoftext|>" THEN eod ELSE 7

tokenize(prompt) == [k \in 1 .. Len(prompt) |-> TokenId(prompt[k])]

\* prompts_tokens, before the padding
PromptsTokens(a) ==
  [i \in 1 .. Len(a.prompts) |->
     IF a.add_BOS THEN <<eod>> \o tokenize(a.prompts[i])
     ELSE tokenize(a.prompts[i])]

\* prompts_length
PromptsLength(a) ==
  [i \in 1 .. Len(a.prompts) |-> Len(PromptsTokens(a)[i])]

\* max(prompts_length), for a list that is not empty
MaxPromptLength(lengths) ==
  CHOOSE m \in {lengths[i] : i \in DOMAIN lengths} :
    \A i \in DOMAIN lengths : lengths[i] <= m

\* samples_length
SamplesLength(a) ==
  MaxPromptLength(PromptsLength(a)) + a.tokens_to_generate

\* variant: every prompt is padded by tokens_to_generate
PaddingSize_Generated(a, prompt_length) == a.tokens_to_generate

\* padding_size = samples_length - prompt_length
PaddingSize(a, prompt_length) == SamplesLength(a) - prompt_length

\* prompt_tokens.extend([tokenizer.eod] * padding_size)
PaddedTokens(a) ==
  [i \in 1 .. Len(a.prompts) |->
     PromptsTokens(a)[i]
       \o [k \in 1 .. PaddingSize(a, PromptsLength(a)[i]) |-> eod]]

\* max() of an empty list raises ValueError
TokenizePromptsAndBatch ==
  /\ tk.pc = "call"
  /\ tk' = IF Len(args.prompts) = 0
             THEN [tk EXCEPT !.raised = "ValueError", !.pc = "raised"]
             ELSE [tk EXCEPT
                     !.tokens = PaddedTokens(args),
                     !.lengths = PromptsLength(args),
                     !.pc = "returned"]
  /\ UNCHANGED <<args, trainVars, exceptBatch>>

InitBatch ==
  /\ args \in BatchArgs
  /\ TrainIdle
  /\ UnitIdle

NextBatch == TokenizePromptsAndBatch

SpecBatch == InitBatch /\ [][NextBatch]_vars

\* ------------------------------------------------------ initialize_megatron
InitializeArgs ==
  [lazy_mpu_init : BOOLEAN,
   allow_no_cuda : BOOLEAN,
   cuda_available : BOOLEAN,
   use_checkpoint_args : BOOLEAN,
   load : BOOLEAN,
   seed : {0, 1}]

\* finish_mpu_init
FinishSteps ==
  <<"_initialize_distributed", "_configure_logging", "_set_random_seed">>

\* the steps before the branch on args.lazy_mpu_init
CommonSteps(a) ==
  (IF a.allow_no_cuda THEN <<>> ELSE <<"assert_cuda">>)
    \o <<"parse_args">>
    \o (IF a.use_checkpoint_args
          THEN <<"assert_load", "load_args_from_checkpoint">> ELSE <<>>)
    \o <<"validate_args", "set_global_variables">>

\* if args.lazy_mpu_init: only the basic globals are set
LazySteps ==
  <<"use_cpu_initialization", "set_tensor_model_parallel_world_size",
    "set_tensor_model_parallel_rank">>

\* variant: the dependencies are compiled before autoresume is initialized
EagerSteps_CompileFirst ==
  FinishSteps \o <<"_compile_dependencies", "_init_autoresume">>

\* else: finish_mpu_init(), _init_autoresume(), _compile_dependencies()
EagerSteps ==
  FinishSteps \o <<"_init_autoresume", "_compile_dependencies">>

InitializeSteps(a) ==
  CommonSteps(a) \o (IF a.lazy_mpu_init THEN LazySteps ELSE EagerSteps)

\* return finish_mpu_init / return None
InitializeResult(a) ==
  IF a.lazy_mpu_init THEN "finish_mpu_init" ELSE "None"

\* the exception a step raises, or "none": the two assertions of
\* initialize_megatron and the seed test of _set_random_seed
StepRaises(a, step) ==
  CASE step = "assert_cuda" /\ ~a.cuda_available -> "AssertionError"
    [] step = "assert_load" /\ ~a.load -> "AssertionError"
    [] step = "_set_random_seed" /\ ~(a.seed > 0) -> "ValueError"
    [] OTHER -> "none"

\* one step of a function whose body are body
RunStep(body, after) ==
  LET step == body[im.at + 1]
      error == StepRaises(args, step)
  IN  im' = IF error # "none"
              THEN [im EXCEPT !.raised = error, !.pc = "raised"]
              ELSE [im EXCEPT
                      !.calls = Append(@, step),
                      !.at = IF im.at + 1 = Len(body) THEN 0 ELSE @ + 1,
                      !.pc = IF im.at + 1 = Len(body) THEN after ELSE @]

InitializeStep ==
  /\ im.pc = "initialize"
  /\ RunStep(InitializeSteps(args), "return")
  /\ UNCHANGED <<args, trainVars, exceptInitialize>>

InitializeReturn ==
  /\ im.pc = "return"
  /\ im' = [im EXCEPT !.ret = InitializeResult(args), !.pc = "returned"]
  /\ UNCHANGED <<args, trainVars, exceptInitialize>>

\* the external manager calls the function it was given
CallFinish ==
  /\ im.pc \in {"returned", "finish"}
  /\ im.ret = "finish_mpu_init"
  /\ IF im.pc = "returned"
       THEN im' = [im EXCEPT !.pc = "finish"]
       ELSE RunStep(FinishSteps, "finished")
  /\ UNCHANGED <<args, trainVars, exceptInitialize>>

InitInitialize ==
  /\ args \in InitializeArgs
  /\ TrainIdle
  /\ UnitIdle

NextInitialize ==
  \/ InitializeStep
  \/ InitializeReturn
  \/ CallFinish

SpecInitialize == InitInitialize /\ [][NextInitialize]_vars

\* ------------------------------------------------------- specification
Next ==
  \/ AllReduceStartTime
  \/ Barrier
  \/ \E r \in Ranks : Setup(r)
  \/ \E r \in Ranks : LoadCheckpoint(r)
  \/ \E r \in Ranks : BuildDataIterators(r)
  \/ TrainStep
  \/ AutoresumeBarrier
  \/ \E r \in Ranks : AutoresumeExit(r)
  \/ Evaluate
  \/ SignalCheck
  \/ \E r \in Ranks : SaveInterval(r)
  \/ \E r \in Ranks : SaveCheckpointAndTimeWrite(r)
  \/ \E r \in Ranks : Saved(r)
  \/ \E r \in Ranks : DurationPoll(r)
  \/ DurationAllReduce
  \/ \E r \in Ranks : ExitInterval(r)
  \/ FinalEval
  \/ \E r \in Ranks : FinalSave(r)
  \/ \E r \in Ranks : Signal(r)
  \/ Restart

Spec == Init /\ [][Next]_vars

\* ------------------------------------------------------------ properties
\* C1: every attempted training step, skipped or not, adds exactly
\* num_microbatches * micro_batch_size * data_parallel_size to
\* consumed_train_samples; the counter never decreases during a run; after N
\* attempted steps it has grown by the sum of the global batch sizes that
\* were in effect at those N steps
C1_ConsumedTrainSamples ==
  /\ [](\A r \in Ranks :
          train_dataloader[r] >= 0
            => consumed_train_samples[r] = train_dataloader[r] + planned[r])
  /\ [][\A r \in Ranks :
          /\ steps'[r] = steps[r] + 1
               => consumed_train_samples'[r] =
                    consumed_train_samples[r]
                      + num_microbatches'[r] * args.micro_batch_size
                          * data_parallel_size
          /\ ~Finished(r)
               => consumed_train_samples'[r] >= consumed_train_samples[r]]_vars

\* two attempted steps, the last one skipped, under batch-size ramp-up
C1_Witness ==
  \E r \in Ranks :
    /\ args.rampup_batch_size # <<>>
    /\ steps[r] = 2
    /\ skipped_iter[r] = 1
    /\ consumed_train_samples[r] = planned[r]
    /\ planned[r] > 0

\* C2: iteration grows by exactly 1 for every attempted step whether or not
\* the optimizer update succeeded, and a step whose update failed reports
\* skipped_iter = 1 (a successful one 0)
C2_IterationCountsAttempts ==
  \A r \in Ranks :
    /\ iteration[r]
         = (IF loaded[r] = NoCkpt THEN 0 ELSE loaded[r].iteration) + steps[r]
    /\ steps[r] > 0
         => skipped_iter[r] = (IF update_successful[r] THEN 0 ELSE 1)

\* a failed update has been counted as an iteration
C2_Witness ==
  \E r \in Ranks :
    /\ steps[r] = 2
    /\ ~update_successful[r]
    /\ skipped_iter[r] = 1
    /\ iteration[r] = 2

\* C3: train_step advances the learning-rate / weight-decay schedule if and
\* only if the optimizer update succeeded, by num_microbatches *
\* micro_batch_size * data_parallel_size samples; a skipped step leaves the
\* schedule where it was, and nothing else in the loop moves it
C3_ScheduleOnlyOnSuccess ==
  [][\A r \in Ranks :
       /\ (steps'[r] = steps[r] + 1 /\ update_successful'[r])
            => num_steps'[r] =
                 num_steps[r]
                   + num_microbatches'[r] * args.micro_batch_size
                       * data_parallel_size
       /\ (steps'[r] = steps[r] + 1 /\ ~update_successful'[r])
            => num_steps'[r] = num_steps[r]
       /\ (steps'[r] = steps[r] /\ ~Finished(r))
            => num_steps'[r] = num_steps[r]]_vars

\* a skipped step after a successful one: the schedule has advanced once
C3_Witness ==
  \E r \in Ranks :
    /\ steps[r] = 2
    /\ ~update_successful[r]
    /\ num_steps[r] > 0
    /\ num_steps[r] < consumed_train_samples[r] - train_dataloader[r]

\* consumed_train_samples of a run that made n steps from scratch without
\* interruption
RECURSIVE UninterruptedConsumed(_, _)
UninterruptedConsumed(a, n) ==
  IF n = 0 THEN 0
  ELSE LET c == UninterruptedConsumed(a, n - 1)
       IN  c + get_current_global_batch_size(a, c)

\* C4: a run that is checkpointed at iteration K, restarted from that
\* checkpoint and continued has, at every iteration, the consumed_train_samples
\* of a run that went there without interruption, batch-size ramp-up
\* included, and ends at the same iteration (storage that started with a
\* checkpoint without counters is not a checkpoint of such a run)
C4_ResumeIsLossless ==
  ~legacy_store =>
    \A r \in Ranks :
      /\ consumed_train_samples[r] =
           UninterruptedConsumed(args, iteration[r])
      /\ pc[r] = "done" => iteration[r] = args.train_iters

\* a run resumed at iteration 1 inside the ramp has finished at iteration 2
C4_Witness ==
  \E r \in Ranks :
    /\ ~legacy_store
    /\ args.rampup_batch_size # <<>>
    /\ loaded[r].has_counters
    /\ loaded[r].iteration = 1
    /\ iteration[r] = 2
    /\ pc[r] = "done"

C6_DurationExitIsAgreed ==
  1 \in poll_flags =>
    \A r \in Ranks :
      /\ pc[r] \in {"sct_b1", "sct_write", "sct_b2", "duration_bye", "exited"}
      /\ ret[r] = "duration_bye"
      /\ \A q \in Ranks : iteration[q] = iteration[r]
      /\ pc[r] \in {"duration_bye", "exited"}
           => Count(writes[r], iteration[r]) >= 1

\* some rank was over the budget at the poll, some rank was not; all left
C6_Witness ==
  /\ poll_flags = {0, 1}
  /\ \A r \in Ranks : pc[r] = "exited" /\ ret[r] = "duration_bye"

\* C7: if any one rank has received the termination signal when iteration i
\* is polled, no rank goes on to the later blocks of the iteration or to
\* iteration i + 1, and each rank that has exited did so at iteration i with
\* a checkpoint of it written
C7_SignalExitIsAgreed ==
  \A a \in Ranks :
    signal_received[a] =>
      \A r \in Ranks :
        /\ iteration[r] <= iteration[a]
        /\ pc[r] \in {"signal_gather", "sct_b1", "sct_write",
                      "sct_b2", "signal_bye", "exited"}
        /\ pc[r] \in {"sct_b1", "sct_write", "sct_b2"}
             => ret[r] = "signal_bye"
        /\ pc[r] = "exited"
             => /\ iteration[r] = iteration[a]
                /\ Count(writes[r], iteration[a]) >= 1

\* one rank received the signal, another did not; both saved and left
C7_Witness ==
  \E a, b \in Ranks :
    /\ signal_received[a]
    /\ ~signal_received[b]
    /\ pc[a] = "exited"
    /\ pc[b] = "exited"
    /\ writes[b] # <<>>

\* C8: within one training iteration a rank writes at most one checkpoint,
\* whichever of the save-interval, signal, wall-time and exit-interval
\* triggers fire in it
C8_OneSavePerIteration ==
  \A r \in Ranks : pc[r] # "done" => iter_saves[r] <= 1

\* the save-interval save was made and an exit trigger fired after it
C8_Witness ==
  \E r \in Ranks :
    /\ saved_checkpoint[r]
    /\ iter_saves[r] = 1
    /\ pc[r] \in {"duration_bye", "exit_barrier"}

\* C9: no rank writes a checkpoint for an iteration number for which one
\* exists: an iteration is saved at most once in a run, counting the saves
\* in the loop, the final save of pretrain and the checkpoint the run
\* loaded
C9_IterationSavedOnce ==
  \A r \in Ranks :
    \A k \in 0..(MaxIters + 1) :
      Count(writes[r], k) + (IF loaded[r].iteration = k THEN 1 ELSE 0) <= 1

C13_NanCountedOnSkippedIterations ==
  log.iteration > 0 =>
    log.reported.nan =
      log.before.nan
        + (IF /\ log.skipped_iter # 0
              /\ \E key \in DOMAIN log.loss_dict :
                   log.loss_dict[key].kind # "finite"
             THEN 1 ELSE 0)

\* after a counted skipped NaN iteration, an iteration with a NaN loss
\* that was not skipped leaves the counter at 1
C13_Witness ==
  /\ log.skipped_iter = 0
  /\ \E key \in DOMAIN log.loss_dict : log.loss_dict[key].kind = "nan"
  /\ log.before.nan = 1
  /\ log.reported.nan = 1

\* C13 as stated: every iteration with a non-finite loss is counted,
\* skipped or not
C13_Original ==
  (/\ log.iteration > 0
   /\ \E key \in DOMAIN log.loss_dict : log.loss_dict[key].kind # "finite")
    => log.reported.nan = log.before.nan + 1

\* C14: training_log adds the reported losses to the per-key totals on
\* iterations that were not skipped and leaves the totals as they are on
\* skipped ones; every call adds 1 to exactly one of the advanced and
\* skipped counters and 0 or 1 to the NaN counter
C14_TotalsOnlyWhenAdvanced ==
  log.iteration > 0 =>
    /\ log.skipped_iter # 0 =>
         /\ log.reported.loss = log.before.loss
         /\ log.reported.skipped = log.before.skipped + 1
         /\ log.reported.advanced = log.before.advanced
    /\ log.skipped_iter = 0 =>
         /\ DOMAIN log.reported.loss
              = DOMAIN log.before.loss \cup DOMAIN log.loss_dict
         /\ \A key \in DOMAIN log.loss_dict :
              log.reported.loss[key] =
                FloatAdd(IF key \in DOMAIN log.before.loss
                           THEN log.before.loss[key] ELSE Fin(0),
                         log.loss_dict[key])
         /\ \A key \in DOMAIN log.before.loss \ DOMAIN log.loss_dict :
              log.reported.loss[key] = log.before.loss[key]
         /\ log.reported.advanced = log.before.advanced + 1
         /\ log.reported.skipped = log.before.skipped
    /\ log.reported.nan \in {log.before.nan, log.before.nan + 1}

\* a skipped iteration that reported a loss of 1 while a total of 1 stood
C14_Witness ==
  /\ log.skipped_iter = 1
  /\ "lm loss" \in DOMAIN log.loss_dict
  /\ "lm loss" \in DOMAIN log.before.loss
  /\ log.loss_dict["lm loss"] = Fin(1)
  /\ log.before.loss["lm loss"] = Fin(1)
  /\ log.reported.loss["lm loss"] = Fin(1)

\* C15: on an iteration that is a multiple of log_interval training_log
\* divides every per-key total by max(1, advanced iterations) and the
\* elapsed time by a positive iteration count, so no division by zero is
\* raised, and leaves the three counters and every per-key total at zero;
\* on any other iteration nothing is averaged and nothing is reset
C15_AveragesAndReset ==
  log.iteration > 0 =>
    IF log.iteration % args.log_interval = 0
      THEN /\ log.logged
           /\ DOMAIN log.avg = DOMAIN log.reported.loss
           /\ \A key \in DOMAIN log.avg :
                /\ ~log.avg[key].raised
                /\ log.avg[key].num = log.reported.loss[key]
                /\ log.avg[key].den =
                     (IF log.reported.advanced >= 1
                        THEN log.reported.advanced ELSE 1)
           /\ log.total_iterations > 0
           /\ total_loss_dict.advanced = 0
           /\ total_loss_dict.skipped = 0
           /\ total_loss_dict.nan = 0
           /\ DOMAIN total_loss_dict.loss = DOMAIN log.reported.loss
           /\ \A key \in DOMAIN total_loss_dict.loss :
                total_loss_dict.loss[key] = Fin(0)
      ELSE /\ ~log.logged
           /\ total_loss_dict = log.reported

\* an interval of two iterations, both skipped, is averaged while a loss
\* key of an earlier interval is in the totals
C15_Witness ==
  /\ args.log_interval = 2
  /\ log.logged
  /\ log.reported.advanced = 0
  /\ log.reported.skipped = 2
  /\ DOMAIN log.avg # {}
  /\ total_loss_dict.skipped = 0

\* C11: a rank that has left train through sys.exit on the signal, the
\* wall-time or the exit-interval path did so when the barrier of
\* print_datetime completed, so every rank has left on the same path in
\* the same iteration: no rank exits while a peer is still before that barrier
TerminationPaths == {"signal_bye", "duration_bye", "exit_barrier"}

C11_ExitAfterAgreementBarrier ==
  \A r \in Ranks :
    (pc[r] = "exited" /\ ret[r] \in TerminationPaths) =>
      \A q \in Ranks :
        /\ pc[q] = "exited"
        /\ ret[q] = ret[r]
        /\ iteration[q] = iteration[r]

\* every rank has left on the exit-interval path without a save of its
\* own (the save-interval save of that iteration was made)
C11_Witness ==
  \A r \in Ranks :
    /\ pc[r] = "exited"
    /\ ret[r] = "exit_barrier"
    /\ saved_checkpoint[r]
    /\ iteration[r] = args.exit_interval

\* C12: the ranks issue the same world-wide collectives in the same
\* order: a rank that waits in a collective has no peer that has ended,
\* and a peer that waits too waits in the same collective of the same
\* iteration, so every collective a rank enters is entered by all
CollectivePcs == {"start", "loop_head", "autoresume_barrier", "eval",
                  "signal_gather", "duration_allreduce", "final_eval"}

Waiting(r) ==
  IF AtBarrier(r) # "" THEN AtBarrier(r)
  ELSE IF pc[r] \in CollectivePcs THEN pc[r]
  ELSE ""

C12_LockStep ==
  \A r, q \in Ranks :
    Waiting(r) # "" =>
      /\ ~Finished(q)
      /\ Waiting(q) # "" =>
           /\ Waiting(q) = Waiting(r)
           /\ iteration[q] = iteration[r]

\* after a skipped step and a wall-time poll in which the ranks computed
\* different flags, one rank waits in the barrier after its save while
\* the other is still writing
C12_Witness ==
  /\ poll_flags = {0, 1}
  /\ \E r \in Ranks : skipped_iter[r] = 1
  /\ \E r, q \in Ranks :
       /\ Waiting(r) = "sct_b2"
       /\ pc[q] = "sct_write"

\* C17: in an iteration that is a multiple of both eval_interval and
\* save_interval, with validation enabled and args.save set, train
\* evaluates before any checkpoint of the iteration is saved, and when it
\* is back at the head of the loop (or has left on a termination path
\* behind the save) one evaluation and a save of that iteration were made;
\* a rank that the autoresume check ended left before the evaluation
BothDue(r) ==
  /\ steps[r] > 0
  /\ do_valid(args)
  /\ args.eval_interval # 0 /\ iteration[r] % args.eval_interval = 0
  /\ args.save
  /\ args.save_interval # 0 /\ iteration[r] % args.save_interval = 0

AutoresumeEnded(r) == pc[r] = "exited" /\ ret[r] \notin TerminationPaths

C17_EvaluateThenSave ==
  \A r \in Ranks :
    BothDue(r) =>
      /\ pc[r] = "eval" => iter_evals[r] = 0 /\ iter_saves[r] = 0
      /\ (iter_saves[r] > 0 /\ ~AutoresumeEnded(r)) => iter_evals[r] = 1
      /\ pc[r] \in {"save_interval", "saved", "duration", "exit_interval"}
           => iter_evals[r] = 1
      /\ (\/ pc[r] = "loop_head"
          \/ pc[r] = "exited" /\ ret[r] \in TerminationPaths)
           => iter_evals[r] = 1 /\ iter_saves[r] = 1

\* train is back at the head of its loop after iteration 2, in which it
\* evaluated and then saved on the save interval
C17_Witness ==
  \A r \in Ranks :
    /\ pc[r] = "loop_head"
    /\ BothDue(r)
    /\ iter_evals[r] = 1
    /\ iter_saves[r] = 1
    /\ saved_checkpoint[r]
    /\ writes[r] = <<iteration[r]>>

\* C16: a rank reaches the end of pretrain only after train returned with
\* iteration >= train_iters, having run the final evaluation (when
\* validation is enabled) and then the final checkpoint save (when
\* args.save is set and iteration # 0); a rank that a termination trigger
\* (signal, wall-time budget, exit interval) ended saved a checkpoint in
\* that iteration and exited inside train, without the final pass
FinalPass(r) ==
  (IF do_valid(args) THEN <<"evaluate">> ELSE <<>>)
    \o (IF args.save /\ iteration[r] # 0
          THEN <<"save_checkpoint">> ELSE <<>>)

Triggered(r) == pc[r] = "exited" /\ ret[r] \in TerminationPaths

C16_FinalPassAfterLoopEnd ==
  \A r \in Ranks :
    /\ pc[r] = "done" =>
         /\ iteration[r] >= args.train_iters
         /\ final_pass[r] = FinalPass(r)
    /\ Triggered(r) =>
         /\ final_pass[r] = <<>>
         /\ iter_saves[r] = 1
         /\ writes[r] # <<>>
         /\ writes[r][Len(writes[r])] = iteration[r]

\* every rank ran the final evaluation and the final save after the loop
\* ended at train_iters
C16_Witness ==
  \A r \in Ranks :
    /\ pc[r] = "done"
    /\ iteration[r] = args.train_iters
    /\ final_pass[r] = <<"evaluate", "save_checkpoint">>

\* C16 as stated: also a rank that a termination trigger ended has run
\* the final pass
C16_Original ==
  \A r \in Ranks :
    (pc[r] = "done" \/ Triggered(r)) => final_pass[r] = FinalPass(r)

\* C18: with a positive seed every process that has run _set_random_seed
\* has given seed + 100 * pipeline rank, plus 10 * data-parallel rank when
\* data_parallel_random_init is set, to random, numpy, torch and (with a
\* device) the CUDA seeding of mpu, and nothing else; without the flag
\* the data-parallel replicas of one pipeline stage have the same seeds
ExpectedSeed(pp, dp) ==
  args.seed.v + 100 * pp
    + (IF args.data_parallel_random_init THEN 10 * dp ELSE 0)

C18_RankSeeds ==
  /\ \A g \in Grid :
       rng.outcome[g] = "returned" =>
         /\ SeedIsValid(args.seed)
         /\ rng.sources[g].random = {ExpectedSeed(g[1], g[2])}
         /\ rng.sources[g].numpy = {ExpectedSeed(g[1], g[2])}
         /\ rng.sources[g].torch = {ExpectedSeed(g[1], g[2])}
         /\ rng.sources[g].cuda =
              (IF rng.device_count > 0
                 THEN {ExpectedSeed(g[1], g[2])} ELSE {})
  /\ ~args.data_parallel_random_init =>
       \A g, h \in Grid :
         (/\ rng.outcome[g] = "returned"
          /\ rng.outcome[h] = "returned"
          /\ g[1] = h[1])
           => rng.sources[g] = rng.sources[h]

\* without the flag, both replicas of pipeline stage 1 hold seed + 100 in
\* every source, the CUDA one included
C18_Witness ==
  /\ ~args.data_parallel_random_init
  /\ args.seed = IntSeed(MaxSeed)
  /\ rng.device_count > 0
  /\ \A dp \in 0 .. NRanks - 1 :
       /\ rng.outcome[<<1, dp>>] = "returned"
       /\ rng.sources[<<1, dp>>].cuda = {MaxSeed + 100}
       /\ rng.sources[<<1, dp>>].random = {MaxSeed + 100}

\* C19: _set_random_seed called with a seed that is None or not positive
\* raises the ValueError and seeds no random source
C19_InvalidSeedRaisesValueError ==
  \A g \in Grid :
    (rng.outcome[g] # "not called" /\ ~SeedIsValid(args.seed)) =>
      /\ rng.outcome[g] = "ValueError"
      /\ rng.sources[g] = Unseeded

\* C20: the operations of a call of train_step are, in this order and
\* once each, optimizer.zero_grad, the forward-backward schedule,
\* optimizer.reduce_model_grads and optimizer.step; optimizer.step is not
\* called again when it reported failure; the parameters are gathered
\* once, behind a successful optimizer.step, and not at all after a
\* failed one
StepOrder ==
  <<"optimizer.zero_grad", "forward_backward_func",
    "optimizer.reduce_model_grads", "optimizer.step">>

InStepOrder(op) == \E i \in 1 .. Len(StepOrder) : StepOrder[i] = op

C20_StepOrder ==
  LET done == SelectSeq(tstep.ops, InStepOrder)
      gathers == Count(tstep.ops, "optimizer.gather_model_params")
  IN /\ Len(done) <= Len(StepOrder)
     /\ done = SubSeq(StepOrder, 1, Len(done))
     /\ tstep.pc \in {"gather", "schedule", "returned"} => done = StepOrder
     /\ gathers =
          (IF /\ tstep.pc \in {"schedule", "returned"}
              /\ tstep.update_successful
             THEN 1 ELSE 0)
     /\ \A i \in 1 .. Len(tstep.ops) :
          tstep.ops[i] = "optimizer.gather_model_params" =>
            \E j \in 1 .. i - 1 : tstep.ops[j] = "optimizer.step"
     /\ tstep.pc = "returned" =>
          /\ tstep.skipped_iter = (IF tstep.update_successful THEN 0 ELSE 1)
          /\ Count(tstep.ops, "opt_param_scheduler.step") =
               (IF tstep.update_successful THEN 1 ELSE 0)

\* the second call has returned after a failed optimizer.step: one call
\* of it, no gather, no scheduler step
C20_Witness ==
  /\ tstep.pc = "returned"
  /\ tstep.calls = 2
  /\ ~tstep.update_successful
  /\ tstep.skipped_iter = 1
  /\ Count(tstep.ops, "optimizer.step") = 1
  /\ Count(tstep.ops, "optimizer.gather_model_params") = 0
  /\ Count(tstep.ops, "zero_grad_buffer") = 1

\* C21: when train_step has returned, the loss dictionary it returns has
\* on a last-pipeline-stage process one entry per loss key, the sum of
\* that key over the micro-batches divided by their number, and is empty
\* on any other process; skipped_iter, grad_norm and num_zeros_in_grad
\* are returned on every process as optimizer.step gave them
C21_ReturnedLosses ==
  tstep.pc = "returned" =>
    LET losses == tstep.losses_reduced
        out == tstep.returned
    IN /\ Len(losses) = args.num_microbatches
       /\ IF tstep.is_pipeline_last_stage
            THEN /\ DOMAIN out.loss_reduced = DOMAIN losses[1]
                 /\ \A key \in DOMAIN out.loss_reduced :
                      /\ ~out.loss_reduced[key].raised
                      /\ out.loss_reduced[key].den = Len(losses)
                      /\ \E total \in 0 .. MaxLoss * Len(losses) :
                           /\ out.loss_reduced[key].num = Fin(total)
                           /\ total = losses[1][key]
                                + (IF Len(losses) > 1
                                     THEN sum([i \in 1 .. Len(losses) - 1 |->
                                                 losses[i + 1][key]])
                                     ELSE 0)
            ELSE DOMAIN out.loss_reduced = {}
       /\ out.skipped_iter = (IF tstep.update_successful THEN 0 ELSE 1)
       /\ out.grad_norm = tstep.grad_norm
       /\ out.num_zeros_in_grad = tstep.num_zeros_in_grad

\* a last-stage process returned two averages over two micro-batches
\* after a skipped update that reported a gradient norm
C21_Witness ==
  /\ tstep.pc = "returned"
  /\ tstep.is_pipeline_last_stage
  /\ args.num_microbatches = 2
  /\ DOMAIN tstep.returned.loss_reduced = {"lm loss", "sop loss"}
  /\ tstep.returned.loss_reduced["lm loss"] = FloatDiv(Fin(1), 2)
  /\ tstep.returned.loss_reduced["sop loss"] = FloatDiv(Fin(2), 2)
  /\ tstep.returned.skipped_iter = 1
  /\ tstep.returned.grad_norm = IntSeed(1)

\* C22: while update_train_iters simulates the ramp, the global batch
\* sizes and micro-batch counts it has stepped through are, step for
\* step, those of the first passes of train's loop from 0 consumed
\* samples, and its sample count is the one the live loop has reached
C22_SimulationMatchesLiveLoop ==
  uti.pc \in {"rampup", "returned"} =>
    /\ Len(uti.microbatches) = Len(uti.batches)
    /\ \A n \in 1 .. Len(uti.batches) :
         /\ uti.batches[n] =
              LiveConsumed(args, n) - LiveConsumed(args, n - 1)
         /\ uti.microbatches[n] =
              get_num_microbatches(args, LiveConsumed(args, n - 1))
    /\ args.rampup_batch_size # <<>> /\ args.train_iters = 0 =>
         \/ uti.pc = "returned"
         \/ uti.consumed_samples = LiveConsumed(args, Len(uti.batches))

\* the simulation has stepped through a ramp of three different sizes
C22_Witness ==
  /\ uti.pc = "returned"
  /\ Len(uti.batches) = 3
  /\ uti.batches[1] < uti.batches[2]
  /\ uti.batches[2] < uti.batches[3]
  /\ uti.batches[Len(uti.batches)] = args.global_batch_size
  /\ uti.train_iters > Len(uti.batches)

\* C30: when update_train_iters has returned, a preset train_iters is
\* unchanged; otherwise running train_iters passes of train's loop from 0
\* consumes at most train_samples samples and one more pass would exceed
\* train_samples, for a constant and for a ramped batch size
C30_TrainItersFitTrainSamples ==
  uti.pc = "returned" =>
    IF args.train_iters # 0
      THEN uti.train_iters = args.train_iters
      ELSE /\ LiveConsumed(args, uti.train_iters) <= args.train_samples
           /\ LiveConsumed(args, uti.train_iters + 1) > args.train_samples

\* C23: the construction of the micro-batch calculator ends in ConfigError
\* exactly when some batch size of the schedule is not a multiple of
\* micro_batch_size * data_parallel_size; with a calculator built, at
\* every step the global batch size in effect is num_microbatches *
\* micro_batch_size * data_parallel_size and the step consumes that many
\* samples
C23_PlanIsExact ==
  /\ calc.pc = "ConfigError" =>
       \E b \in ScheduleBatches(args) :
         \A n \in 0 .. MaxBatch :
           b # n * args.micro_batch_size * data_parallel_size
  /\ calc.pc = "built" =>
       /\ \A b \in ScheduleBatches(args) :
            \E n \in 1 .. MaxBatch :
              b = n * args.micro_batch_size * data_parallel_size
       /\ calc.current_global_batch_size =
            calc.num_microbatches * args.micro_batch_size * data_parallel_size
       /\ calc.num_microbatches >= 1
       /\ calc.consumed = calc.before
            + (IF calc.steps > 0 THEN calc.current_global_batch_size ELSE 0)

\* the example of the specification, micro_batch_size 4 on two replicas
\* with global batch size 32: three steps of 4 micro-batches
C23_Witness ==
  /\ data_parallel_size = 2
  /\ args.micro_batch_size = 4
  /\ args.global_batch_size = 32
  /\ args.rampup_batch_size = <<>>
  /\ calc.pc = "built"
  /\ calc.steps = MaxCalcSteps
  /\ calc.num_microbatches = 4
  /\ calc.consumed = 32 * MaxCalcSteps

\* C24: for every world size that tensor size * pipeline size divides,
\* the topologies the ranks have computed on their own agree: each rank
\* is in its own groups, the tensor and pipeline groups have the
\* configured sizes and data size * tensor size * pipeline size is the
\* world size, and if B is in A's data-parallel (tensor-, pipeline-
\* parallel) group then A is in B's and both hold the same member set
C24_TopologyIsConsistent ==
  \A a \in World :
    topo[a].initialized =>
      /\ a \in topo[a].tensor /\ a \in topo[a].pipeline /\ a \in topo[a].data
      /\ Cardinality(topo[a].tensor) = args.tensor_model_parallel_size
      /\ Cardinality(topo[a].pipeline) = args.pipeline_model_parallel_size
      /\ Cardinality(topo[a].data) * Cardinality(topo[a].tensor)
           * Cardinality(topo[a].pipeline) = args.world_size
      /\ \A b \in World :
           topo[b].initialized =>
             /\ b \in topo[a].tensor => topo[b].tensor = topo[a].tensor
             /\ b \in topo[a].pipeline => topo[b].pipeline = topo[a].pipeline
             /\ b \in topo[a].data => topo[b].data = topo[a].data
             /\ (b \in topo[a].tensor) <=> (a \in topo[b].tensor)
             /\ (b \in topo[a].pipeline) <=> (a \in topo[b].pipeline)
             /\ (b \in topo[a].data) <=> (a \in topo[b].data)

\* six processes, tensor size 1 and pipeline size 3: every process has
\* computed its topology, with data-parallel groups of two
C24_Witness ==
  /\ args.world_size = 6
  /\ args.tensor_model_parallel_size = 1
  /\ args.pipeline_model_parallel_size = 3
  /\ \A r \in 0 .. 5 : topo[r].initialized
  /\ topo[0].data = {0, 1}
  /\ topo[0].pipeline = {0, 2, 4}
  /\ topo[5].data = {4, 5}

\* C25: when get_model has built one partition per virtual stage it has
\* set the virtual-pipeline rank to 0, 1, ... in turn, one value per
\* partition, and returns with the rank at the last stage index; when it
\* builds a single model it returns with the rank as it was at the call
C25_VirtualRankAfterGetModel ==
  /\ gm.pc \in {"build", "wrap", "returned"} /\ Interleaved(args) =>
       /\ Len(gm.model) = gm.i
       /\ \A k \in 1 .. Len(gm.model) :
            gm.model[k].virtual_rank = IntSeed(k - 1)
       /\ gm.i > 0 => gm.virtual_rank = IntSeed(gm.i - 1)
  /\ gm.pc = "returned" =>
       IF Interleaved(args)
         THEN /\ Len(gm.model) = args.virtual_pipeline_model_parallel_size
              /\ gm.virtual_rank =
                   IntSeed(args.virtual_pipeline_model_parallel_size - 1)
         ELSE /\ Len(gm.model) = 1
              /\ gm.virtual_rank = gm.before

\* get_model was called with virtual-pipeline rank 0 and has returned
\* with three partitions and the rank at 2
C25_Witness ==
  /\ gm.pc = "returned"
  /\ gm.before = IntSeed(0)
  /\ Len(gm.model) = 3
  /\ gm.virtual_rank = IntSeed(2)

\* C25 as stated: when get_model returns the virtual-pipeline rank is
\* the one it had before the call
C25_Original ==
  gm.pc = "returned" => gm.virtual_rank = gm.before

C27_SinkFailureLeavesTrainingRunning ==
  sink.error # "" => sink.pc # "exception"

C29_LoopIsBounded ==
  \A r \in Ranks :
    LET k == IF loaded[r] = NoCkpt THEN 0 ELSE loaded[r].iteration
    IN  /\ iteration[r] = k + steps[r]
        /\ steps[r] <= Max(0, args.train_iters - k)
        /\ iteration[r] <= Max(k, args.train_iters)
        /\ pc[r] \in {"final_eval", "final_save", "done"} =>
             /\ steps[r] = Max(0, args.train_iters - k)
             /\ iteration[r] =
                  (IF k <= args.train_iters THEN args.train_iters ELSE k)

\* a run that loaded iteration 1 has taken the one step up to
\* train_iters = 2 and is done
C29_Witness ==
  \E r \in Ranks :
    /\ pc[r] = "done"
    /\ loaded[r].iteration = 1
    /\ args.train_iters = 2
    /\ steps[r] = 1
    /\ iteration[r] = 2

\* C31: no process of another rank is at or past its fused_kernels.load
\* before rank 0 has finished its own, no process has left
\* _compile_dependencies before every process has loaded, a process that
\* has left has passed two barriers, and as long as some process is
\* inside the function a step is possible
C31_RankZeroBuildsFirst ==
  /\ \A r \in Ranks :
       /\ (get_rank(r) # 0
           /\ (CompileAt(r) \in {"load", "return"} \/ cdep[r].loaded))
            => \E z \in Ranks : get_rank(z) = 0 /\ cdep[z].loaded
       /\ CompileAt(r) = "return" =>
            /\ \A q \in Ranks : cdep[q].loaded
            /\ cdep[r].barriers = 2
       /\ cdep[r].barriers <= 2
  /\ (\E r \in Ranks : CompileAt(r) # "return") => ENABLED NextCompile

\* rank 0 has loaded and waits in its first barrier while the other
\* process has not passed its own first barrier and has not loaded
C31_Witness ==
  /\ cdep[1].loaded /\ CompileAt(1) = "barrier" /\ cdep[1].barriers = 0
  /\ ~cdep[2].loaded /\ cdep[2].barriers = 0

\* C32: two processes on different pipeline stages are given different
\* seeds, whatever their data-parallel ranks and the setting of
\* data_parallel_random_init, and with data_parallel_random_init set two
\* processes of one stage with different data-parallel ranks are given
\* different seeds
C32_DistinctSeeds ==
  pair.pc = "returned" =>
    /\ pair.a[1] # pair.b[1] => pair.seed_a # pair.seed_b
    /\ (/\ args.data_parallel_random_init
        /\ pair.a[1] = pair.b[1]
        /\ pair.a[2] # pair.b[2]) => pair.seed_a # pair.seed_b

\* C33: for an encoder-and-decoder model on more than one pipeline stage
\* get_model fails its assertion without a split rank and otherwise
\* builds one model with pre_process exactly on pipeline ranks 0 and
\* split_rank, post_process exactly on ranks split_rank - 1 and
\* world_size - 1, add_encoder exactly before the split and add_decoder
\* exactly from the split on; with virtual pipeline stages configured as
\* well it fails its assertion and builds nothing
C33_EncoderDecoderStages ==
  LET rank == args.pipeline_model_parallel_rank
      split == args.pipeline_model_parallel_split_rank
      world == args.pipeline_model_parallel_size
  IN  (/\ gm.pc # "idle"
       /\ args.model_type = "encoder_and_decoder"
       /\ world > 1) =>
        IF args.virtual_pipeline_model_parallel_size # 0 \/ split.none
          THEN gm.pc = "AssertionError" /\ gm.model = <<>>
          ELSE /\ gm.pc \in {"wrap", "returned"}
               /\ Len(gm.model) = 1
               /\ gm.model[1].pre_process <=> rank \in {0, split.v}
               /\ gm.model[1].post_process <=> rank \in {split.v - 1, world - 1}
               /\ gm.model[1].add_encoder <=> rank < split.v
               /\ gm.model[1].add_decoder <=> rank >= split.v

\* the process of pipeline rank 1 of 3 with the split at rank 2 is the
\* last encoder stage: post_process without pre_process, encoder only
C33_Witness ==
  /\ gm.pc = "returned"
  /\ args.model_type = "encoder_and_decoder"
  /\ args.pipeline_model_parallel_size = 3
  /\ args.pipeline_model_parallel_rank = 1
  /\ args.pipeline_model_parallel_split_rank = IntSeed(2)
  /\ gm.model[1].post_process /\ ~gm.model[1].pre_process
  /\ gm.model[1].add_encoder /\ ~gm.model[1].add_decoder

\* C34: a call of evaluate makes eval_iters passes of its loop, each with
\* one forward-only pass, and on the last rank with a
\* process_non_loss_data_func one more forward-only pass behind the loop;
\* consumed_valid_samples grows by data_parallel_size * micro_batch_size *
\* num_microbatches per pass of the loop and by nothing else, iteration and
\* consumed_train_samples of the run are as they were, the partitions are
\* in evaluation mode during the passes and in training mode at the return
C34_EvaluateCounts ==
  LET per == data_parallel_size * args.micro_batch_size * args.num_microbatches
      extra == IF ev.collected THEN 1 ELSE 0
  IN  /\ ev.iteration <= args.eval_iters
      /\ ev.forward_only = ev.iteration + extra
      /\ ev.consumed_valid_samples = ev.before + ev.iteration * per
      /\ ev.consumed_train_samples = ev.train_iteration * data_parallel_size
      /\ ev.pc \in {"loop", "train_mode"} =>
           \A m \in DOMAIN ev.training : ~ev.training[m]
      /\ ev.pc \in {"train_mode", "returned"} =>
           /\ ev.iteration = args.eval_iters
           /\ ev.collected <=>
                (args.process_non_loss_data_func /\ args.is_last_rank)
      /\ ev.pc = "returned" => \A m \in DOMAIN ev.training : ev.training[m]

\* evaluate has returned on the last rank after two passes of the loop and
\* the pass that collects the non-loss data: three forward-only passes,
\* two of them counted
C34_Witness ==
  /\ ev.pc = "returned"
  /\ args.eval_iters = 2
  /\ ev.collected
  /\ ev.forward_only = 3
  /\ ev.consumed_valid_samples =
       ev.before + 2 * data_parallel_size * args.micro_batch_size
                     * args.num_microbatches

\* C35: in a run resumed from a checkpoint every validation loader is
\* started at the number of samples its dataset had given when the
\* checkpoint was written, which is consumed_valid_samples divided by the
\* number of validation datasets
C35_ValidLoadersResumeWhereTheyWere ==
  (vd.runs > 1 /\ vd.pc # "build") =>
    \A i \in DOMAIN vd.start :
      /\ vd.start[i] = vd.loaded.drawn[i]
      /\ vd.start[i] = vd.loaded.consumed_valid_samples \div args.num_valid_ds

\* C36: when the data iterators are built with iteration > 0 and
\* consumed_train_samples == 0, consumed_train_samples becomes
\* iteration * global_batch_size if training is iteration-based and the
\* build fails with an assertion if train_samples is set; the assertion
\* fails in no other case, and a non-zero counter (or any counter at
\* iteration 0) is left unchanged
C36_BackwardCompatibleCounter ==
  LET legacy == bc.iteration > 0 /\ bc.loaded_train_samples = 0
  IN  bc.pc # "build" =>
        /\ (bc.raised = "AssertionError") <=>
             (legacy /\ args.train_samples # NoneSeed)
        /\ (bc.pc = "loaders" /\ legacy) =>
             /\ args.train_samples = NoneSeed
             /\ bc.consumed_train_samples =
                  bc.iteration * args.global_batch_size
        /\ (bc.pc = "loaders" /\ ~legacy) =>
             bc.consumed_train_samples = bc.loaded_train_samples
        /\ bc.pc = "raised" =>
             bc.consumed_train_samples = bc.loaded_train_samples

\* a legacy checkpoint was resumed under iteration-based training and its
\* counter was derived from the iteration
C36_Witness ==
  /\ bc.pc = "loaders"
  /\ bc.iteration = 2
  /\ bc.loaded_train_samples = 0
  /\ bc.consumed_train_samples = 2 * args.global_batch_size

\* C37: for both loader types the i-th validation (test) iterator yields
\* only batches of the i-th loader, in the loader's order, and with
\* 'cyclic' it starts that loader again when it is exhausted instead of
\* stopping
C37_IteratorYieldsItsOwnLoader ==
  \A i \in DOMAIN di.yielded \ {0} :
    /\ \A k \in 1 .. Len(di.yielded[i]) :
         di.yielded[i][k] = Batch(i, ((k - 1) % LoaderLen) + 1)
    /\ di.stopped[i] => args.dataloader_type = "single"

\* C38: with args.save unset no path of train or pretrain (save interval,
\* signal, wall time, exit interval, final save) calls save_checkpoint
C38_NoSaveWithoutSaveDirectory ==
  ~args.save => \A r \in Ranks : writes[r] = <<>>

\* C39: the batch _tokenize_prompts_and_batch returns is rectangular: one
\* row per prompt, every row of length (largest reported length) +
\* tokens_to_generate; row i starts with the tokens of prompt i, after one
\* EOD token when add_BOS is set; the reported length of row i is the
\* number of those unpadded tokens, the leading token included; every
\* position beyond the reported length holds EOD
C39_RectangularBatch ==
  tk.pc = "returned" =>
    LET n == Len(args.prompts)
        bos == IF args.add_BOS THEN 1 ELSE 0
        longest == CHOOSE m \in {tk.lengths[i] : i \in 1 .. n} :
                     \A i \in 1 .. n : tk.lengths[i] <= m
    IN  /\ Len(tk.tokens) = n
        /\ Len(tk.lengths) = n
        /\ \A i \in 1 .. n :
             /\ Len(tk.tokens[i]) = longest + args.tokens_to_generate
             /\ tk.lengths[i] = bos + Len(args.prompts[i])
             /\ args.add_BOS => tk.tokens[i][1] = eod
             /\ \A k \in 1 .. Len(args.prompts[i]) :
                  tk.tokens[i][bos + k] = TokenId(args.prompts[i][k])
             /\ \A k \in (tk.lengths[i] + 1) .. Len(tk.tokens[i]) :
                  tk.tokens[i][k] = eod

\* two prompts of different lengths were batched with a leading token and
\* tokens to generate: the shorter row is padded further
C39_Witness ==
  /\ tk.pc = "returned"
  /\ args.add_BOS
  /\ args.tokens_to_generate = 2
  /\ tk.lengths = <<2, 3>>
  /\ tk.tokens = <<(<<0, 7, 0, 0, 0>>), (<<0, 7, 7, 0, 0>>)>>

\* the steps among calls that initialize torch.distributed and the
\* model-parallel groups, the seeds, autoresume or the fused kernels
C40_Heavy(calls) ==
  SelectSeq(calls, LAMBDA c : c \in {"_initialize_distributed",
                                     "_set_random_seed",
                                     "_init_autoresume",
                                     "_compile_dependencies"})

\* C40: with lazy_mpu_init, initialize_megatron returns the finish function
\* and up to that return nothing has initialized torch.distributed, the
\* model-parallel groups, the seeds, autoresume or the fused kernels;
\* without it, it returns None after distributed initialization, seeding,
\* autoresume initialization and dependency compilation, run in that order
C40_LazyAndEagerInitialization ==
  /\ (args.lazy_mpu_init /\ im.pc \in {"initialize", "return", "returned"}) =>
       C40_Heavy(im.calls) = <<>>
  /\ (args.lazy_mpu_init /\ im.ret # "unset") => im.ret = "finish_mpu_init"
  /\ (~args.lazy_mpu_init /\ im.ret # "unset") =>
       /\ im.ret = "None"
       /\ C40_Heavy(im.calls) =
            <<"_initialize_distributed", "_set_random_seed",
              "_init_autoresume", "_compile_dependencies">>
  /\ ~args.lazy_mpu_init =>
       \E n \in 0 .. 4 :
         C40_Heavy(im.calls) =
           SubSeq(<<"_initialize_distributed", "_set_random_seed",
                    "_init_autoresume", "_compile_dependencies">>, 1, n)

\* an eager call has returned None
C40_Witness ==
  /\ ~args.lazy_mpu_init
  /\ im.pc = "returned"
  /\ im.ret = "None"
  /\ Len(C40_Heavy(im.calls)) = 4

\* a lazy call has returned the finish function before anything was
\* initialized
C40_WitnessLazy ==
  /\ args.lazy_mpu_init
  /\ im.pc = "returned"
  /\ im.ret = "finish_mpu_init"
  /\ C40_Heavy(im.calls) = <<>>

=============================================================================
